---- MODULE Spec2Model ----
(***************************************************************************)
(* Verification model of the static-text analysis core of                  *)
(* godot-mcp-ultimate (class AdvancedAnalyzer).                            *)
(*                                                                         *)
(*   Part A  analyzeAutoloads / suggestLoadOrder                           *)
(*           (autoload dependency graph, pair-cycle detection, load order) *)
(*   Part B  detectDeadCode                                                *)
(*           (declarations, usage set, exclusion rules, dead candidates)   *)
(*   Part C  analyzeSignalFlow                                             *)
(*           (signal declarations, connections, emissions, orphans)        *)
(*   Part D  analyzeFunctionComplexity (AdvancedAnalyzer) and              *)
(*           calculateComplexity / getComplexityGrade (QualityChecker)     *)
(*   Part E  findDuplication, normalizeCode, hashCode                      *)
(***************************************************************************)
EXTENDS Integers, Sequences, FiniteSets, TLC

(***************************************************************************)
(* Bounds of the model.                                                    *)
(***************************************************************************)
\* largest number of singletons in the [autoload] section
MaxAutoloads == 3
\* largest number of identifier occurrences over all singleton source files
MaxRefs == 3
\* largest number of lines over all script files of a scanned corpus
MaxLines == 2
\* largest number of lines of a script handed to a complexity counter
MaxScript == 4
\* largest number of functions and top-level statements over all files
\* searched for duplicates
MaxItems == 4

\* chunks of output an external program writes at most
MaxChunks == 2
\* largest number of registered singletons in the calls followed through the
\* request handler
MaxRegistered == 2
\* calls of the analysis tools in one session of the server
MaxCalls == 4

\* declarations of one script
MaxDeclared == 51

\* connections the LSP server holds open or is asked for at one time
MaxSockets == 3

\* calls of sendRequest from outside the class
MaxRequests == 2

\* complete messages of one stream
MaxMessages == 2

(***************************************************************************)
(* Generic helpers.                                                        *)
(***************************************************************************)
Range(s) == {s[i] : i \in 1..Len(s)}

Min(a, b) == IF a < b THEN a ELSE b

\* position of the first occurrence of x in s (0 when absent)
IndexOf(s, x) == IF x \in Range(s) THEN CHOOSE i \in 1..Len(s) : s[i] = x /\ \A j \in 1..(i-1) : s[j] # x ELSE 0

(***************************************************************************)
(* PART A - inputs.  Singleton names, listed in the order JavaScript's     *)
(* default Array.prototype.sort places them (code-unit order).             *)
(***************************************************************************)
NameTable == <<"Audio", "Game", "UI", "World", "Zone">>

Names == {NameTable[i] : i \in 1..Min(MaxAutoloads, Len(NameTable))}

Rank(n) == CHOOSE i \in 1..Len(NameTable) : NameTable[i] = n

\* A source file is seen by the analysis only through the identifiers
\* (maximal runs of \w characters) that occur in it.  An identifier is a
\* singleton name followed by a possibly empty tail of further \w characters:
\* [base |-> "Audio", tail |-> ""] is the word  Audio , and
\* [base |-> "Audio", tail |-> "Bus"] is the word  AudioBus .
Word(n) == [base |-> n, tail |-> ""]

DecoyWord == [base |-> NameTable[1], tail |-> "Bus"]

\* sequences without repetition over S, of every length
RECURSIVE Arrangements(_)
Arrangements(S) == {<<>>} \cup UNION {{<<x>> \o t : t \in Arrangements(S \ {x})} : x \in S}

Registries == Arrangements(Names)

\* file contents for a registry r: which identifier occurs in which file
RefSets(r) == {S \in SUBSET (Range(r) \X ({Word(n) : n \in Range(r)} \cup {DecoyWord})) : Cardinality(S) <= MaxRefs}

\* at most one of the registered source files is absent from the disk
MissingSets(r, S) == {{}} \cup {{n} : n \in {m \in Range(r) : \A p \in S : p[1] # m}}

\* a file on disk: absent (existsSync is false), or present with its content
NoFile == [exists |-> FALSE, text |-> {}]

File(text) == [exists |-> TRUE, text |-> text]

VARIABLES
    manifest,       \* project.godot: NoFile, or File(its [autoload] entries)
    fileWords,      \* singleton name -> NoFile, or File(identifiers in it)
    autoloads,      \* analyzeAutoloads: const autoloads
    dependencies,   \* analyzeAutoloads: const dependencies (keys set so far)
    dependents,     \* analyzeAutoloads: const dependents (keys set so far)
    aIdx,           \* position of the outer for-loop over autoloads
    circularDeps,   \* analyzeAutoloads: const circularDeps
    order,          \* suggestLoadOrder: const order
    visited,        \* suggestLoadOrder: const visited
    temp,           \* suggestLoadOrder: const temp
    stack,          \* call stack of visit(): frames [name, k], top first
    rIdx,           \* position of the for-loop of suggestLoadOrder
    aPc             \* position of the call / its outcome

aVars == <<manifest, fileWords, autoloads, dependencies, dependents, aIdx, circularDeps, order, visited, temp, stack, rIdx, aPc>>

VARIABLES
    rootExists,             \* detectDeadCode: whether the directory searchPath exists
    files,                  \* detectDeadCode: the .gd files the glob returned, with their text
    sceneFiles,             \* detectDeadCode: the .tscn files the glob returned, with their text
    allFunctions,           \* detectDeadCode: Map allFunctions, in insertion order
    allVariables,           \* detectDeadCode: Map allVariables, in insertion order
    allSignals,             \* detectDeadCode: Map allSignals, in insertion order
    usages,                 \* detectDeadCode: Set usages
    stringReferences,       \* detectDeadCode: Set stringReferences
    dIdx,                   \* position of the running for-loop over files
    report,                 \* the object detectDeadCode returns
    dPc                     \* position of the call / its outcome

dVars == <<rootExists, files, sceneFiles, allFunctions, allVariables, allSignals, usages, stringReferences, dIdx, report, dPc>>

VARIABLES
    flowFiles,      \* analyzeSignalFlow: the .gd files the glob returned, with their text
    signals,        \* analyzeSignalFlow: const signals
    connections,    \* analyzeSignalFlow: const connections
    emissions,      \* analyzeSignalFlow: const emissions
    gIdx,           \* position of the for-loop over files
    flowReport,     \* the object analyzeSignalFlow returns
    gPc             \* position of the call / its outcome

gVars == <<flowFiles, signals, connections, emissions, gIdx, flowReport, gPc>>

VARIABLES
    content,        \* the text of the script handed to the two complexity counters
    functions,      \* analyzeFunctionComplexity: what it returned for content
    results,        \* calculateComplexity: what it returned for content
    resultsBefore   \* calculateComplexity: what it returned before the last edit

cVars == <<content, functions, results, resultsBefore>>

VARIABLES
    dupFiles,       \* findDuplication: the .gd files the glob returned, with their text
    min_lines,      \* findDuplication: args.min_lines (0 when the caller gives none)
    codeBlocks,     \* findDuplication: Map codeBlocks, in insertion order
    eIdx,           \* position of the for-loop over files
    dupReport,      \* the object findDuplication returns
    ePc             \* position of the call / its outcome

eVars == <<dupFiles, min_lines, codeBlocks, eIdx, dupReport, ePc>>

VARIABLES
    response        \* what the CallToolRequestSchema handler returned for the call

hVars == <<response>>

VARIABLES
    procTool,       \* the tool that spawns: runTests, runGdlint or formatFile
    timeoutArg,     \* runTests: args.timeout (Absent when the caller gives none)
    dry_run,        \* formatFile: args.dry_run
    ready,          \* gdunitPath is set / the file exists and gdformat is available
    behaviour,      \* how the external program ends: by itself, on SIGTERM, on SIGKILL only
    procState,      \* the child process: none, running, exited
    procKilled,     \* proc.killed: a signal was handed to the child by proc.kill
    sent,           \* the signals proc.kill delivered, in order
    exitCode,       \* the code the close event carries
    stdout,         \* number of chunks the data listener appended to stdout
    killed,         \* runTests: let killed
    timeoutId,      \* runTests: the timer of the timeout: none, armed, fired, cleared
    graceId,        \* runTests: the inner 5 s timer: none, armed, fired
    result,         \* the value the promise of the call resolved with
    fPc             \* position of the call

fVars == <<procTool, timeoutArg, dry_run, ready, behaviour, procState, procKilled, sent, exitCode, stdout, killed, timeoutId, graceId, result, fPc>>

VARIABLES
    calls,          \* number of tool calls the server has dispatched so far
    firstResults    \* per tool, the outcome of its first finished call

sVars == <<calls, firstResults>>

VARIABLES
    before          \* detectDeadCode: what the call found before a file was added to the project

kVars == <<before>>

VARIABLES
    sockets,            \* SemanticAnalyzer: the net.Socket objects made and not closed yet
    socket,             \* this.socket, as a position in sockets (0 is null)
    initialized,        \* this.initialized
    requestId,          \* this.requestId
    pendingRequests,    \* the keys of this.pendingRequests
    timers,             \* the ids whose setTimeout callback has not run yet
    requests,           \* the calls of sendRequest made from outside the class
    written,            \* the ids written to the socket
    ignored,            \* the responses and timeouts that found no pending request
    buffer,             \* this.buffer
    dispatched,         \* the contents handed to handleMessage
    incoming            \* the byte stream of the server, and how much of it the socket has delivered

lVars == <<sockets, socket, initialized, requestId, pendingRequests, timers, requests, written, ignored, buffer, dispatched, incoming>>

vars == <<aVars, dVars, gVars, cVars, eVars, hVars, fVars, sVars, kVars, lVars>>

\* the state outside part A, outside part B, ..., outside part E
outsideA == <<dVars, gVars, cVars, eVars, hVars, fVars, sVars, kVars, lVars>>

outsideB == <<aVars, gVars, cVars, eVars, hVars, fVars, sVars, kVars, lVars>>

outsideC == <<aVars, dVars, cVars, eVars, hVars, fVars, sVars, kVars, lVars>>

outsideD == <<aVars, dVars, gVars, eVars, hVars, fVars, sVars, kVars, lVars>>

outsideE == <<aVars, dVars, gVars, cVars, hVars, fVars, sVars, kVars, lVars>>

outsideF == <<aVars, dVars, gVars, cVars, eVars, hVars, sVars, kVars, lVars>>

outsideL == <<aVars, dVars, gVars, cVars, eVars, hVars, fVars, sVars, kVars>>

\* no outcome of a tool on record
NotSeen == [seen |-> FALSE]

\* the server has dispatched no call but the one under study
SessionIdle ==
    /\ calls = 0
    /\ firstResults = [flow |-> NotSeen, dead |-> NotSeen]

NoStream == [stream |-> <<>>, delivered |-> 0]

\* no SemanticAnalyzer request has been made
LspIdle ==
    /\ sockets = <<>>
    /\ socket = 0
    /\ initialized = FALSE
    /\ requestId = 0
    /\ pendingRequests = {}
    /\ timers = {}
    /\ requests = <<>>
    /\ written = <<>>
    /\ ignored = {}
    /\ buffer = <<>>
    /\ dispatched = <<>>
    /\ incoming = NoStream

\* the project has not grown between two calls
GrowthIdle == before = NotSeen

\* the promise of a spawning tool has not resolved
NoResult == [resolved |-> FALSE]

\* args.timeout left out by the caller
Absent == -1

\* no spawning tool is running
ProcessIdle ==
    /\ procTool = "none"
    /\ timeoutArg = Absent
    /\ dry_run = TRUE
    /\ ready = TRUE
    /\ behaviour = "exits"
    /\ procState = "none"
    /\ procKilled = FALSE
    /\ sent = <<>>
    /\ exitCode = "null"
    /\ stdout = 0
    /\ killed = FALSE
    /\ timeoutId = "none"
    /\ graceId = "none"
    /\ result = NoResult
    /\ fPc = "idle"

\* the handler has not answered the call yet
NoResponse == [answered |-> FALSE, isError |-> FALSE, text |-> ""]

HandlerIdle == response = NoResponse

\* no call of findDuplication is running
DuplicationIdle ==
    /\ dupFiles = <<>>
    /\ min_lines = 0
    /\ codeBlocks = <<>>
    /\ eIdx = 1
    /\ dupReport = [returned |-> FALSE]
    /\ ePc = "idle"

\* a counter that has not run on the present content
NotRun == [ran |-> FALSE, list |-> <<>>]

\* no complexity counter is running
ComplexityIdle ==
    /\ content = <<>>
    /\ functions = NotRun
    /\ results = NotRun
    /\ resultsBefore = NotRun

\* no call of analyzeSignalFlow is running
SignalFlowIdle ==
    /\ flowFiles = <<>>
    /\ signals = <<>>
    /\ connections = <<>>
    /\ emissions = <<>>
    /\ gIdx = 1
    /\ flowReport = [returned |-> FALSE]
    /\ gPc = "idle"

\* no call outside parts A and B is running
RestIdle == SignalFlowIdle /\ ComplexityIdle /\ DuplicationIdle /\ HandlerIdle /\ ProcessIdle /\ SessionIdle /\ GrowthIdle /\ LspIdle

(***************************************************************************)
(* The CallToolRequestSchema handler: "try { switch (name) { case ...:     *)
(* return await tool(args); } } catch (error) { return { ..., isError:     *)
(* true }; }".  A tool that ran to its return statement hands its own      *)
(* result through; one that threw is answered by the catch block.          *)
(***************************************************************************)
\* the tool reached a return statement
ToolReturned ==
    \/ aPc \in {"done", "notfound"}
    \/ dPc = "done"
    \/ gPc = "done"
    \/ ePc = "done"

\* an exception left the tool
ToolThrew == "threw" \in {aPc, dPc, gPc, ePc}

\* the value of "await tool(args)": the early return of analyzeAutoloads
\* carries isError, the reports carry the flag they were built with
ToolResult ==
    CASE aPc = "notfound" -> [answered |-> TRUE, isError |-> TRUE, text |-> "project.godot not found"]
      [] dPc = "done" -> [answered |-> TRUE, isError |-> report.isError, text |-> "report"]
      [] gPc = "done" -> [answered |-> TRUE, isError |-> flowReport.isError, text |-> "report"]
      [] ePc = "done" -> [answered |-> TRUE, isError |-> dupReport.isError, text |-> "report"]
      [] OTHER -> [answered |-> TRUE, isError |-> FALSE, text |-> "report"]

\* the catch block's result with the error flag left clear
CaughtResultUnflagged == [answered |-> TRUE, isError |-> FALSE, text |-> "Error executing"]

\* the result the catch block builds
CaughtResult == [answered |-> TRUE, isError |-> TRUE, text |-> "Error executing"]

\* "return await this.analyzer.tool(args)"
HandlerReturn ==
    /\ response = NoResponse
    /\ ToolReturned
    /\ response' = ToolResult
    /\ UNCHANGED <<aVars, dVars, gVars, cVars, eVars, fVars, sVars, kVars, lVars>>

\* "catch (error) { return { content: [...], isError: true }; }"
HandlerCatch ==
    /\ response = NoResponse
    /\ ToolThrew
    /\ response' = CaughtResult
    /\ UNCHANGED <<aVars, dVars, gVars, cVars, eVars, fVars, sVars, kVars, lVars>>

(***************************************************************************)
(* analyzeAutoloads                                                        *)
(***************************************************************************)
EmptyMap == [n \in {} |-> <<>>]

\* obj[key] = value on a plain JavaScript object
Put(obj, key, value) == [k \in DOMAIN obj \cup {key} |-> IF k = key THEN value ELSE obj[k]]

\* new RegExp(`\\b${name}\\b`).test(content)
WholeWordTest(name, words) == Word(name) \in words

\* The inner loop "for (const other of autoloads)" from position j on, for
\* the singleton at position i.  dependents[other.name].push(...) on a key
\* that is not set yet is a TypeError, which leaves analyzeAutoloads.
RECURSIVE ScanOthers(_, _, _, _, _)
ScanOthers(al, i, j, deps, dents) ==
    IF j > Len(al) THEN [threw |-> FALSE, deps |-> deps, dents |-> dents]
    ELSE IF al[j] # al[i] /\ WholeWordTest(al[j], fileWords[al[i]].text)
         THEN IF al[j] \notin DOMAIN dents
              THEN [threw |-> TRUE, deps |-> deps, dents |-> dents]
              ELSE ScanOthers(al, i, j + 1,
                              [deps EXCEPT ![al[i]] = Append(@, al[j])],
                              [dents EXCEPT ![al[j]] = Append(@, al[i])])
         ELSE ScanOthers(al, i, j + 1, deps, dents)

\* [a, b].sort()
SortPair(a, b) == IF Rank(a) <= Rank(b) THEN <<a, b>> ELSE <<b, a>>

\* the inner loop of the detection: "for (const dep of dependencies[name])"
RECURSIVE CircularInner(_, _, _, _)
CircularInner(deps, name, k, acc) ==
    IF k > Len(deps[name]) THEN acc
    ELSE LET dep == deps[name][k]
             pair == SortPair(name, dep)
             hit == dep \in DOMAIN deps /\ name \in Range(deps[dep])
         IN CircularInner(deps, name, k + 1,
                IF hit /\ pair \notin Range(acc) THEN Append(acc, pair) ELSE acc)

\* the outer loop of the detection: "for (const autoload of autoloads)"
RECURSIVE CircularOuter(_, _, _, _)
CircularOuter(al, deps, i, acc) ==
    IF i > Len(al) THEN acc
    ELSE CircularOuter(al, deps, i + 1, CircularInner(deps, al[i], 1, acc))

\* existsSync(project.godot) and the parse of the [autoload] section
AnalyzeStart ==
    /\ aPc = "start"
    /\ IF ~manifest.exists
       THEN aPc' = "notfound" /\ UNCHANGED autoloads
       ELSE aPc' = "scan" /\ autoloads' = manifest.text
    /\ UNCHANGED <<manifest, fileWords, dependencies, dependents, aIdx, circularDeps, order, visited, temp, stack, rIdx>>
    /\ UNCHANGED outsideA

\* one iteration of "for (const autoload of autoloads)" of the dependency scan
ScanAutoload ==
    /\ aPc = "scan"
    /\ aIdx <= Len(autoloads)
    /\ LET name == autoloads[aIdx]
           d0 == Put(dependencies, name, <<>>)
           t0 == Put(dependents, name, <<>>)
           r == IF ~fileWords[name].exists
                THEN [threw |-> FALSE, deps |-> d0, dents |-> t0]
                ELSE ScanOthers(autoloads, aIdx, 1, d0, t0)
       IN IF r.threw
          THEN aPc' = "threw" /\ UNCHANGED <<dependencies, dependents, aIdx>>
          ELSE /\ dependencies' = r.deps
               /\ dependents' = r.dents
               /\ aIdx' = aIdx + 1
               /\ UNCHANGED aPc
    /\ UNCHANGED <<manifest, fileWords, autoloads, circularDeps, order, visited, temp, stack, rIdx>>
    /\ UNCHANGED outsideA

\* the pair-cycle detection, then the call of suggestLoadOrder
DetectCircular ==
    /\ aPc = "scan"
    /\ aIdx > Len(autoloads)
    /\ circularDeps' = CircularOuter(autoloads, dependencies, 1, <<>>)
    /\ aPc' = "order"
    /\ UNCHANGED <<manifest, fileWords, autoloads, dependencies, dependents, aIdx, order, visited, temp, stack, rIdx>>
    /\ UNCHANGED outsideA

(***************************************************************************)
(* suggestLoadOrder: the closure visit() run on an explicit call stack.    *)
(***************************************************************************)
\* frames the JavaScript engine allows before RangeError (never reached by
\* the code itself: a name is on the stack at most once)
MaxStack == MaxAutoloads + 2

\* deps[name] || []
DepsOf(name) == IF name \in DOMAIN dependencies THEN dependencies[name] ELSE <<>>

\* visit() without its in-progress guard: only finished names return at once
VisitCutNoTemp(name) == name \in visited

\* the two guards at the head of visit(name)
VisitCut(name) == name \in temp \/ name \in visited

\* where visit() puts a finished name
PlaceInOrder(ord, name) == <<name>> \o ord

\* the call visit(name): return at once, or mark in progress and enter
Enter(name, rest) ==
    IF VisitCut(name)
    THEN stack' = rest /\ UNCHANGED <<temp, aPc>>
    ELSE IF Len(rest) >= MaxStack
         THEN aPc' = "threw" /\ UNCHANGED <<temp, stack>>
         ELSE /\ temp' = temp \cup {name}
              /\ stack' = <<[name |-> name, k |-> 1]>> \o rest
              /\ UNCHANGED aPc

\* "for (const autoload of autoloads) visit(autoload.name)"
LoadOrderNext ==
    /\ aPc = "order"
    /\ stack = <<>>
    /\ rIdx <= Len(autoloads)
    /\ Enter(autoloads[rIdx], stack)
    /\ rIdx' = rIdx + 1
    /\ UNCHANGED <<manifest, fileWords, autoloads, dependencies, dependents, aIdx, circularDeps, order, visited>>
    /\ UNCHANGED outsideA

\* "for (const dep of deps[name] || []) visit(dep)" in the running visit()
VisitDep ==
    /\ aPc = "order"
    /\ stack # <<>>
    /\ LET top == Head(stack)
       IN /\ top.k <= Len(DepsOf(top.name))
          /\ Enter(DepsOf(top.name)[top.k], <<[top EXCEPT !.k = @ + 1]>> \o Tail(stack))
    /\ UNCHANGED <<manifest, fileWords, autoloads, dependencies, dependents, aIdx, circularDeps, order, visited, rIdx>>
    /\ UNCHANGED outsideA

\* the end of visit(): temp.delete, visited.add, order.unshift
VisitFinish ==
    /\ aPc = "order"
    /\ stack # <<>>
    /\ LET top == Head(stack)
       IN /\ top.k > Len(DepsOf(top.name))
          /\ temp' = temp \ {top.name}
          /\ visited' = visited \cup {top.name}
          /\ order' = PlaceInOrder(order, top.name)
          /\ stack' = Tail(stack)
    /\ UNCHANGED <<manifest, fileWords, autoloads, dependencies, dependents, aIdx, circularDeps, rIdx, aPc>>
    /\ UNCHANGED outsideA

\* "return order", and the return of analyzeAutoloads with the report
LoadOrderReturn ==
    /\ aPc = "order"
    /\ stack = <<>>
    /\ rIdx > Len(autoloads)
    /\ aPc' = "done"
    /\ UNCHANGED <<manifest, fileWords, autoloads, dependencies, dependents, aIdx, circularDeps, order, visited, temp, stack, rIdx>>
    /\ UNCHANGED outsideA

(***************************************************************************)
(* Specifications of part A.                                               *)
(***************************************************************************)
\* no call of detectDeadCode is running
DeadCodeIdle ==
    /\ rootExists = TRUE
    /\ files = <<>>
    /\ sceneFiles = <<>>
    /\ allFunctions = <<>>
    /\ allVariables = <<>>
    /\ allSignals = <<>>
    /\ usages = {}
    /\ stringReferences = {}
    /\ dIdx = 1
    /\ report = [returned |-> FALSE]
    /\ dPc = "idle"

AutoloadLocals ==
    /\ autoloads = <<>>
    /\ dependencies = EmptyMap
    /\ dependents = EmptyMap
    /\ aIdx = 1
    /\ circularDeps = <<>>
    /\ order = <<>>
    /\ visited = {}
    /\ temp = {}
    /\ stack = <<>>
    /\ rIdx = 1

\* a call of analyzeAutoloads on any project within the bounds
CallOnProject(registries) ==
    /\ \/ manifest = NoFile /\ fileWords = EmptyMap
       \/ \E r \in registries : \E S \in RefSets(r) : \E M \in MissingSets(r, S) :
            /\ manifest = File(r)
            /\ fileWords = [n \in Range(r) |-> IF n \in M THEN NoFile ELSE File({p[2] : p \in {q \in S : q[1] = n}})]
    /\ AutoloadLocals
    /\ aPc = "start"
    /\ DeadCodeIdle
    /\ RestIdle

InitAutoload == CallOnProject(Registries)

NextAutoload ==
    \/ AnalyzeStart
    \/ ScanAutoload
    \/ DetectCircular
    \/ LoadOrderNext
    \/ VisitDep
    \/ VisitFinish
    \/ LoadOrderReturn
    \/ HandlerReturn
    \/ HandlerCatch

SpecAutoload == InitAutoload /\ [][NextAutoload]_vars

\* a call of analyzeAutoloads through the handler on a project with or
\* without a manifest and at most MaxRegistered singletons in it
InitToolCall == CallOnProject({r \in Registries : Len(r) <= MaxRegistered})

SpecToolCall == InitToolCall /\ [][NextAutoload]_vars

\* dependency lists over the registry r in which every singleton may depend
\* on any set of singletons (itself included), listed in registry order, with
\* at most MaxRefs edges in all
RECURSIVE SubSeq2(_, _)
SubSeq2(s, keep) ==
    IF s = <<>> THEN <<>>
    ELSE (IF Head(s) \in keep THEN <<Head(s)>> ELSE <<>>) \o SubSeq2(Tail(s), keep)

Graphs(r) == {[n \in Range(r) |-> {p[2] : p \in {q \in E : q[1] = n}}] : E \in {F \in SUBSET (Range(r) \X Range(r)) : Cardinality(F) <= MaxRefs}}

\* a call of suggestLoadOrder(autoloads, deps) on any graph within the bounds
LoadOrderOn(registries) ==
    /\ autoloads \in registries
    /\ manifest = File(autoloads)
    /\ fileWords = EmptyMap
    /\ \E g \in Graphs(autoloads) : dependencies = [n \in Range(autoloads) |-> SubSeq2(autoloads, g[n])]
    /\ dependents = EmptyMap
    /\ aIdx = 1
    /\ circularDeps = <<>>
    /\ order = <<>>
    /\ visited = {}
    /\ temp = {}
    /\ stack = <<>>
    /\ rIdx = 1
    /\ aPc = "order"
    /\ DeadCodeIdle
    /\ RestIdle

InitLoadOrder == LoadOrderOn(Registries)

\* The ordering compares names for equality only, so a registry and the one
\* obtained by renaming its singletons behave alike: one registry of every
\* length, with every dependency graph over it.
InitTableOrder == LoadOrderOn({r \in Registries : \A i \in 1..Len(r) : r[i] = NameTable[i]})

NextLoadOrder ==
    \/ LoadOrderNext
    \/ VisitDep
    \/ VisitFinish
    \/ LoadOrderReturn

\* suggestLoadOrder is synchronous code: it keeps running until it returns
SpecLoadOrder == InitLoadOrder /\ [][NextLoadOrder]_vars /\ WF_vars(NextLoadOrder)

SpecTableOrder == InitTableOrder /\ [][NextLoadOrder]_vars /\ WF_vars(NextLoadOrder)

(***************************************************************************)
(* Properties of part A.                                                   *)
(***************************************************************************)
aTerminated == aPc \in {"done", "threw"}

\* the registry and the source files as the call was given them
Registered == IF manifest.exists THEN Range(manifest.text) ELSE {}

\* B's name occurs as a whole word in A's source file
Mentions(a, b) == fileWords[a].exists /\ [base |-> b, tail |-> ""] \in fileWords[a].text

RefEdge(a, b) == a \in Registered /\ b \in Registered /\ a # b /\ Mentions(a, b)

\* the graph held in the dependencies map
DepEdge(a, b) == a \in DOMAIN dependencies /\ b \in Range(dependencies[a])

DepAcyclic == \E t \in Arrangements(DOMAIN dependencies) : Len(t) = Cardinality(DOMAIN dependencies) /\ \A i, j \in 1..Len(t) : DepEdge(t[i], t[j]) => j < i

Before(s, x, y) == IndexOf(s, x) > 0 /\ IndexOf(s, y) > 0 /\ IndexOf(s, x) < IndexOf(s, y)

AudioGameUI ==
    /\ Registered = {"Audio", "Game", "UI"}
    /\ \A a, b \in Registered : RefEdge(a, b) <=> (<<a, b>> \in {<<"Game", "Audio">>, <<"UI", "Game">>})

\* C1: for an acyclic registry the suggested load order returned by
\* analyzeAutoloads lists every singleton before every singleton that depends
\* on it; for Audio, Game (uses Audio), UI (uses Game) it is Audio, Game, UI.
C1_LoadOrderDependenciesFirst ==
    (aPc = "done" /\ DepAcyclic) =>
        /\ \A a, b \in DOMAIN dependencies : DepEdge(a, b) => Before(order, b, a)
        /\ AudioGameUI => order = <<"Audio", "Game", "UI">>

TwoMutual ==
    /\ Cardinality(Registered) = 2
    /\ \A a, b \in Registered : a # b => RefEdge(a, b)

\* C2: for two singletons whose files reference each other, in either
\* registry order, analyzeAutoloads returns circular_dependencies holding
\* exactly the one pair of the two.
C2_MutualPairReportedOnce ==
    (TwoMutual /\ aTerminated) =>
        /\ aPc = "done"
        /\ \E a, b \in Registered : a # b /\ circularDeps = <<SortPair(a, b)>>

ThreeCycle ==
    \E t \in Arrangements(Registered) :
        /\ Len(t) = 3
        /\ Cardinality(Registered) = 3
        /\ \A a, b \in Registered : RefEdge(a, b) <=> (<<a, b>> \in {<<t[1], t[2]>>, <<t[2], t[3]>>, <<t[3], t[1]>>})

\* C3: for three singletons forming a 3-cycle without a mutual pair,
\* analyzeAutoloads returns an empty circular_dependencies list; only pairs
\* with references in both directions are ever reported.
C3_ThreeCycleNotReported ==
    /\ (ThreeCycle /\ aTerminated) => (aPc = "done" /\ circularDeps = <<>>)
    /\ \A i \in 1..Len(circularDeps) : RefEdge(circularDeps[i][1], circularDeps[i][2]) /\ RefEdge(circularDeps[i][2], circularDeps[i][1])

\* C4: for every registry and every order of its entries analyzeAutoloads
\* completes, and dependents is the exact inverse of dependencies: B is in
\* dependencies[A] iff A is in dependents[B] iff B's name occurs as a whole
\* word in A's source file.
C4_DependentsInverseOfDependencies ==
    /\ aPc # "threw"
    /\ aPc = "done" =>
         \A a, b \in Registered : a # b =>
            /\ (b \in Range(dependencies[a])) <=> (a \in Range(dependents[b]))
            /\ (b \in Range(dependencies[a])) <=> RefEdge(a, b)

HasCycleOfThree ==
    \E t \in Arrangements(DOMAIN dependencies) :
        Len(t) = 3 /\ DepEdge(t[1], t[2]) /\ DepEdge(t[2], t[3]) /\ DepEdge(t[3], t[1])

IsPermutationOf(s, S) == Range(s) = S /\ Len(s) = Cardinality(S)

\* C5: suggestLoadOrder terminates for every dependency graph, cycles of any
\* length included, and returns a sequence in which every registered
\* singleton appears exactly once; meeting a node that is still in progress
\* cuts the recursion and raises no error.
C5_LoadOrderTerminatesTotal ==
    /\ [](aPc # "threw")
    /\ <>(aPc = "done")
    /\ [](aPc = "done" => IsPermutationOf(order, Range(autoloads)))

C5_Witness == aPc = "done" /\ HasCycleOfThree /\ Len(order) = 3

(***************************************************************************)
(* PART B - detectDeadCode.                                                *)
(*                                                                         *)
(* Text model.  A line is its indentation and its tokens; a token is a     *)
(* word (a maximal run of \w characters), a string literal holding one     *)
(* word, or a punctuation mark.  Two adjacent words are separated by       *)
(* whitespace.  A word is written as a prefix and a stem, so that the      *)
(* startsWith tests and the ^prefix patterns of the code are computed.     *)
(***************************************************************************)
Id(pre, stem) == [pre |-> pre, stem |-> stem]

Text(id) == id.pre \o id.stem

NoId == Id("", "")

W(id) == [t |-> "w", id |-> id]

Kw(s) == W(Id("", s))

Str(id) == [t |-> "str", id |-> id]

P(s) == [t |-> s, id |-> NoId]

Line(indent, toks) == [indent |-> indent, toks |-> toks]

\* the identifiers of the corpora
HelperId == Id("_", "helper")

HandlerId == Id("_on_", "hit")

ReadyId == Id("_", "ready")

GetterId == Id("get_", "hp")

SpawnId == Id("", "spawn")

\* \w+ that starts with a digit: matched by (\w+), not by [a-z_][a-z0-9_]*
DigitId == Id("9", "lives")

\* the k-th of a series of names that start with a digit: 9x, 9xx, ...
RECURSIVE Stem(_)
Stem(k) == IF k = 0 THEN "" ELSE Stem(k - 1) \o "x"

SeriesId(k) == Id("9", Stem(k))

DeclaredIds == {HelperId, HandlerId, ReadyId, GetterId, SpawnId, DigitId} \cup {SeriesId(k) : k \in 1..MaxDeclared}

\* the text forms of the lines of the corpora
FuncLine(id) == Line(0, <<Kw("func"), W(id), P("("), P(")"), P(":")>>)

VarLine(id) == Line(0, <<Kw("var"), W(id)>>)

ExportVarLine(suffix, id) == Line(0, <<P("@"), W(Id("export", suffix)), Kw("var"), W(id)>>)

ExportArgsVarLine(id) == Line(0, <<P("@"), W(Id("export", "_range")), P("("), P(")"), Kw("var"), W(id)>>)

SignalLine(id) == Line(0, <<Kw("signal"), W(id)>>)

DocLine == Line(0, <<P("##"), Kw("doc")>>)

CallLine(id) == Line(1, <<W(id), P("("), P(")")>>)

KeyLine(id) == Line(1, <<Kw("d"), P("["), Str(id), P("]")>>)

BindingLine(id) == Line(0, <<P("["), Kw("connection"), Kw("method"), P("="), Str(id), P("]")>>)

LinePool ==
    {FuncLine(id) : id \in {HelperId, HandlerId, ReadyId, GetterId, SpawnId}}
    \cup {VarLine(id) : id \in {HandlerId, DigitId}}
    \cup {ExportVarLine(sfx, DigitId) : sfx \in {"", "_multiline"}}
    \cup {ExportArgsVarLine(DigitId)}
    \cup {SignalLine(id) : id \in {HandlerId, DigitId}}
    \cup {DocLine, CallLine(HelperId), KeyLine(DigitId)}

\* path.relative(searchPath, file), cut at every "::" it contains; the file
\* names of a Godot project contain no ':'
PathTable == << <<"scripts/a.gd">>, <<"scripts/b.gd">> >>

\* the texts of n files holding at most budget lines in all
RECURSIVE Texts(_, _)
Texts(n, budget) ==
    IF n = 0 THEN {<<>>}
    ELSE UNION {{<<ls>> \o rest : ls \in [1..k -> LinePool], rest \in Texts(n - 1, budget - k)} : k \in 0..budget}

\* what the disk holds for a path the glob returned: a readable file, no
\* file any more (existsSync is false), or a file readFileSync cannot read
FileStats == {"ok", "missing", "unreadable"}

\* the .gd files of a project; a file that cannot be read shows no text
Corpora ==
    {[i \in 1..Len(t) |-> [path |-> PathTable[i], stat |-> st[i], lines |-> t[i]]] :
        <<t, st>> \in {q \in Texts(Len(PathTable), MaxLines) \X [1..Len(PathTable) -> {"ok", "unreadable"}] :
                          \A i \in 1..Len(PathTable) : q[2][i] # "ok" => q[1][i] = <<>>}}

SceneCorpora ==
    {<<>>,
     <<[path |-> <<"main.tscn">>, stat |-> "ok", lines |-> <<BindingLine(HelperId)>>]>>,
     <<[path |-> <<"main.tscn">>, stat |-> "unreadable", lines |-> <<>>]>>}

(***************************************************************************)
(* The tables of the class.                                                *)
(***************************************************************************)
VIRTUAL_METHODS ==
    {"_init", "_ready", "_enter_tree", "_exit_tree", "_notification",
     "_process", "_physics_process", "_unhandled_input", "_unhandled_key_input",
     "_input", "_shortcut_input", "_gui_input",
     "_draw", "_get_minimum_size",
     "_get", "_set", "_get_property_list", "_property_can_revert",
     "_property_get_revert", "_validate_property",
     "_to_string",
     "_get_configuration_warnings", "_get_tool_buttons",
     "_setup_local_to_scene",
     "_state_enter", "_state_exit", "_state_process", "_state_physics_process",
     "enter", "exit", "update", "physics_update"}

\* the patterns /^get_/, /^set_/, ... by the prefix each one anchors
PUBLIC_API_PATTERNS ==
    {"get_", "set_", "is_", "has_", "can_",
     "add_", "remove_", "clear_",
     "start_", "stop_", "pause_", "resume_",
     "enable_", "disable_", "toggle_",
     "load_", "save_", "reset_",
     "show_", "hide_", "update_",
     "play_", "queue_",
     "emit_", "broadcast_",
     "register_", "unregister_",
     "on_", "handle_"}

\* the word a text stands for
IdOfText(name) == CHOOSE id \in DeclaredIds : Text(id) = name

\* name.startsWith("_on_")
IsSignalHandler(name) == IdOfText(name).pre = "_on_"

\* name.startsWith("_")
IsPrivate(name) == IdOfText(name).pre \in {"_", "_on_"}

\* PUBLIC_API_PATTERNS.some(p => p.test(name))
MatchesPublicApi(name) == IdOfText(name).pre \in PUBLIC_API_PATTERNS

\* [a-z_][a-z0-9_]* (flag i) can start at the head of the word
IdentifierShaped(id) == id.pre # "9"

(***************************************************************************)
(* Phase 1: the three declaration recognisers, and the Maps.               *)
(***************************************************************************)
TokAt(toks, i) == IF i >= 1 /\ i <= Len(toks) THEN toks[i] ELSE P("eol")

\* line.match(/^func\s+(\w+)\s*\(/): <<name>> or <<>>
FuncMatch(line) ==
    IF line.indent = 0 /\ TokAt(line.toks, 1) = Kw("func") /\ TokAt(line.toks, 2).t = "w" /\ TokAt(line.toks, 3).t = "("
    THEN <<Text(line.toks[2].id)>> ELSE <<>>

\* the word after '@' is export or export_<suffix>
IsExportAnnotation(tok) == tok.t = "w" /\ tok.id.pre = "export" /\ tok.id.stem \in {"", "_multiline", "_range"}

\* line.match(/^(@export(?:_\w+)?\s+)?var\s+(\w+)/): <<[exported, name]>> or <<>>
VarMatch(line) ==
    IF line.indent = 0 /\ TokAt(line.toks, 1) = Kw("var") /\ TokAt(line.toks, 2).t = "w"
    THEN <<[isExported |-> FALSE, name |-> Text(line.toks[2].id)]>>
    ELSE IF line.indent = 0 /\ TokAt(line.toks, 1) = P("@") /\ IsExportAnnotation(TokAt(line.toks, 2))
            /\ TokAt(line.toks, 3) = Kw("var") /\ TokAt(line.toks, 4).t = "w"
         THEN <<[isExported |-> TRUE, name |-> Text(line.toks[4].id)]>>
         ELSE <<>>

\* line.match(/^signal\s+(\w+)/): <<name>> or <<>>
SignalMatch(line) ==
    IF line.indent = 0 /\ TokAt(line.toks, 1) = Kw("signal") /\ TokAt(line.toks, 2).t = "w"
    THEN <<Text(line.toks[2].id)>> ELSE <<>>

\* prevLine.trim().startsWith("##")
HasDocComment(lines, i) == i > 1 /\ TokAt(lines[i - 1].toks, 1) = P("##")

\* `${relativePath}::${name}`, as the pieces between its "::"
KeyOf(relativePath, name) == relativePath \o <<name>>

\* key.split("::")[1]
SplitName(key) == key[2]

\* Map.prototype.set: a known key keeps its place and takes the new value
MapSet(map, key, value) ==
    IF \E i \in 1..Len(map) : map[i].key = key
    THEN [i \in 1..Len(map) |-> IF map[i].key = key THEN [key |-> key, value |-> value] ELSE map[i]]
    ELSE Append(map, [key |-> key, value |-> value])

\* the body of "for (let i = 0; ...)" of phase 1 on line i of a file
DefineLine(maps, path, lines, i) ==
    LET f == FuncMatch(lines[i])
        v == VarMatch(lines[i])
        g == SignalMatch(lines[i])
        skipped == f # <<>> /\ (f[1] \in VIRTUAL_METHODS \/ IsSignalHandler(f[1]))
        fs == IF f # <<>> /\ ~skipped
              THEN MapSet(maps.fs, KeyOf(path, f[1]),
                          [file |-> path, line |-> i, isPrivate |-> IsPrivate(f[1]),
                           isExported |-> FALSE, hasDocComment |-> HasDocComment(lines, i)])
              ELSE maps.fs
        vs == IF v # <<>> /\ ~skipped
              THEN MapSet(maps.vs, KeyOf(path, v[1].name),
                          [file |-> path, line |-> i, isPrivate |-> IsPrivate(v[1].name),
                           isExported |-> v[1].isExported])
              ELSE maps.vs
        gs == IF g # <<>> /\ ~skipped
              THEN MapSet(maps.gs, KeyOf(path, g[1]), [file |-> path, line |-> i])
              ELSE maps.gs
    IN [fs |-> fs, vs |-> vs, gs |-> gs]

RECURSIVE DefineLines(_, _, _, _)
DefineLines(maps, path, lines, i) ==
    IF i > Len(lines) THEN maps
    ELSE DefineLines(DefineLine(maps, path, lines, i), path, lines, i + 1)

(***************************************************************************)
(* Phase 2: the usage extractors, each on the tokens of one line.  (A      *)
(* pattern with \s could also match across a line break; the corpora have  *)
(* no statement that is broken before its parenthesis.)                    *)
(***************************************************************************)
Positions(toks) == 1..Len(toks)

IsWord(toks, i) == TokAt(toks, i).t = "w"

IsKw(toks, i, names) == IsWord(toks, i) /\ toks[i].id.pre = "" /\ toks[i].id.stem \in names

\* /\b(\w+)\s*\(/g
DirectCalls(toks) == {Text(toks[i].id) : i \in {j \in Positions(toks) : IsWord(toks, j) /\ TokAt(toks, j + 1).t = "("}}

\* /\.(\w+)\s*\(/g
MethodCalls(toks) == {Text(toks[i].id) : i \in {j \in Positions(toks) : TokAt(toks, j - 1).t = "." /\ IsWord(toks, j) /\ TokAt(toks, j + 1).t = "("}}

\* /\.(\w+)(?!\s*\()/g  (before a parenthesis the pattern backtracks and
\* captures the word without its last character, which is no word of the corpora)
PropertyReads(toks) == {Text(toks[i].id) : i \in {j \in Positions(toks) : TokAt(toks, j - 1).t = "." /\ IsWord(toks, j) /\ TokAt(toks, j + 1).t # "("}}

\* /(\w+)\.emit\s*\(/g and /(\w+)\.connect\s*\(/g
SignalReceivers(toks, verb) == {Text(toks[i].id) : i \in {j \in Positions(toks) : IsWord(toks, j) /\ TokAt(toks, j + 1).t = "." /\ IsKw(toks, j + 2, {verb}) /\ TokAt(toks, j + 3).t = "("}}

\* /(?:names)\s*\(\s*["'](\w+)["']/g
StringArguments(toks, names) == {Text(toks[i].id) : i \in {j \in Positions(toks) : TokAt(toks, j).t = "str" /\ TokAt(toks, j - 1).t = "(" /\ IsKw(toks, j - 2, names)}}

\* /Callable\s*\([^,]+,\s*["'](\w+)["']/g
CallableStrings(toks) ==
    {Text(toks[i].id) : i \in {j \in Positions(toks) :
        /\ TokAt(toks, j).t = "str"
        /\ TokAt(toks, j - 1).t = ","
        /\ \E c \in Positions(toks) :
              /\ c + 3 <= j
              /\ IsKw(toks, c, {"Callable"})
              /\ TokAt(toks, c + 1).t = "("
              /\ \A m \in (c + 2)..(j - 2) : toks[m].t # ","}}

\* /connect\s*\([^)]*["'](\w+)["']/g
ConnectStrings(toks) ==
    {Text(toks[i].id) : i \in {j \in Positions(toks) :
        /\ TokAt(toks, j).t = "str"
        /\ \E c \in Positions(toks) :
              /\ c + 2 <= j
              /\ IsKw(toks, c, {"connect"})
              /\ TokAt(toks, c + 1).t = "("
              /\ \A m \in (c + 2)..(j - 1) : toks[m].t # ")"}}

\* /await\s+(\w+)/g
AwaitTargets(toks) == {Text(toks[i].id) : i \in {j \in Positions(toks) : IsWord(toks, j) /\ IsKw(toks, j - 1, {"await"})}}

\* /(?:\[["']|\.get\s*\(\s*["'])(\w+)["']/g
KeyStrings(toks) ==
    {Text(toks[i].id) : i \in {j \in Positions(toks) :
        /\ TokAt(toks, j).t = "str"
        /\ \/ TokAt(toks, j - 1).t = "["
           \/ TokAt(toks, j - 1).t = "(" /\ IsKw(toks, j - 2, {"get"}) /\ TokAt(toks, j - 3).t = "."}}

\* a variant of the catch-all below that sees the words of statements only,
\* not the name a declaration line introduces
BareIdentifiersOffDeclarations(toks) ==
    IF TokAt(toks, 1) \in {Kw("func"), Kw("var"), Kw("signal"), P("@")} THEN {}
    ELSE {Text(toks[i].id) : i \in {j \in Positions(toks) : toks[j].t \in {"w", "str"} /\ IdentifierShaped(toks[j].id)}}

\* /\b([a-z_][a-z0-9_]*)\b/gi: every identifier-shaped word of the text,
\* in code, comments and string literals alike
BareIdentifiers(toks) == {Text(toks[i].id) : i \in {j \in Positions(toks) : toks[j].t \in {"w", "str"} /\ IdentifierShaped(toks[j].id)}}

\* /super\.(\w+)\s*\(/g
SuperCalls(toks) == {Text(toks[i].id) : i \in {j \in Positions(toks) : IsWord(toks, j) /\ TokAt(toks, j - 1).t = "." /\ IsKw(toks, j - 2, {"super"}) /\ TokAt(toks, j + 1).t = "("}}

\* what phase 2 adds to usages for one line of a .gd file
LineUsages(toks) ==
    DirectCalls(toks) \cup MethodCalls(toks) \cup PropertyReads(toks)
    \cup SignalReceivers(toks, "emit") \cup SignalReceivers(toks, "connect")
    \cup StringArguments(toks, {"call", "call_deferred", "callv", "call_thread_safe"})
    \cup CallableStrings(toks) \cup ConnectStrings(toks) \cup AwaitTargets(toks)
    \cup BareIdentifiers(toks) \cup SuperCalls(toks)
    \cup StringArguments(toks, {"has_method"})

\* what phase 2 adds to stringReferences for one line of a .gd file
LineStringReferences(toks) ==
    StringArguments(toks, {"call", "call_deferred", "callv", "call_thread_safe"})
    \cup CallableStrings(toks) \cup ConnectStrings(toks) \cup KeyStrings(toks)
    \cup StringArguments(toks, {"has_method"})
    \cup StringArguments(toks, {"get_meta", "set_meta", "has_meta"})

\* /method="(\w+)"/g on a line of a .tscn file
MethodBindings(toks) == {Text(toks[i].id) : i \in {j \in Positions(toks) : TokAt(toks, j).t = "str" /\ TokAt(toks, j - 1).t = "=" /\ IsKw(toks, j - 2, {"method"})}}

FileUsages(lines) == UNION {LineUsages(lines[i].toks) : i \in 1..Len(lines)}

FileStringReferences(lines) == UNION {LineStringReferences(lines[i].toks) : i \in 1..Len(lines)}

SceneUsages(lines) == UNION {MethodBindings(lines[i].toks) \cup MethodCalls(lines[i].toks) : i \in 1..Len(lines)}

SceneStringReferences(lines) == UNION {MethodBindings(lines[i].toks) : i \in 1..Len(lines)}

(***************************************************************************)
(* Phase 3: the decisions, in Map order.                                   *)
(***************************************************************************)
Dead(entry) == [key |-> entry.key, name |-> SplitName(entry.key), value |-> entry.value]

\* the loop over allFunctions without its two usage tests
FunctionVerdictIgnoringUsages(entry) ==
    LET name == SplitName(entry.key)
    IN IF ~entry.value.isPrivate /\ entry.value.hasDocComment THEN "documented"
       ELSE IF ~entry.value.isPrivate /\ MatchesPublicApi(name) THEN "api"
       ELSE "dead"

\* the four "continue" tests of the loop over allFunctions:
\* "used", "documented", "api" or "dead"
FunctionVerdict(entry) ==
    LET name == SplitName(entry.key)
    IN IF name \in usages THEN "used"
       ELSE IF name \in stringReferences THEN "used"
       ELSE IF ~entry.value.isPrivate /\ entry.value.hasDocComment THEN "documented"
       ELSE IF ~entry.value.isPrivate /\ MatchesPublicApi(name) THEN "api"
       ELSE "dead"

\* the loop over allVariables without its export test
VariableIsDeadIgnoringExport(entry) == SplitName(entry.key) \notin usages

\* the two "continue" tests of the loop over allVariables
VariableIsDead(entry) == SplitName(entry.key) \notin usages /\ ~entry.value.isExported

\* the two "continue" tests of the loop over allSignals
SignalIsDead(entry) == SplitName(entry.key) \notin usages /\ SplitName(entry.key) \notin stringReferences

\* the entries of a Map whose key is in keys, in Map order, as pushed to a dead list
SelectDead(map, keys) == SelectSeq([i \in 1..Len(map) |-> Dead(map[i])], LAMBDA d : d.key \in keys)

CountVerdict(map, verdict) == Cardinality({i \in 1..Len(map) : FunctionVerdict(map[i]) = verdict})

\* Math.round(x / y * 100) for integers x >= 0, y > 0.  The product is a
\* double: for y below 70 it is the exact value except at x / y = 23 / 40,
\* where it is 57.49999999999999 and rounds down.
RoundPercent(x, y) == IF 40 * x = 23 * y THEN 57 ELSE (200 * x + y) \div (2 * y)

\* `${falsePositiveEstimate}%`
PercentText(n) == [percent |-> n, unit |-> "%"]

\* Array.prototype.slice(0, 50)
MaxListed == 50

Slice(s) == SubSeq(s, 1, Min(Len(s), MaxListed))

(***************************************************************************)
(* The call detectDeadCode, step by step.                                  *)
(***************************************************************************)
\* the lengths of the three lists the report shows
ListedDead(deadFunctions, deadVariables, deadSignals) ==
    Len(Slice(deadFunctions)) + Len(Slice(deadVariables)) + Len(Slice(deadSignals))

\* deadFunctions.length + deadVariables.length + deadSignals.length
TotalDead(deadFunctions, deadVariables, deadSignals) ==
    Len(deadFunctions) + Len(deadVariables) + Len(deadSignals)

\* a Set that is rebuilt for every file: only the names of the last file stay
KeepLast(set, found) == found

\* "usages.add(...)" / "stringReferences.add(...)" for every match of a file
AddAll(set, found) == set \cup found

\* a Map that outlives the call: the entries of the previous call stay
KeptMap(previous) == previous

\* "new Map()" / "[]" in the body of a method: a fresh empty collection,
\* whatever an earlier call left behind
NewMap(previous) == <<>>

\* the glob of the .gd files (under a search root that does not exist it
\* finds no path and raises nothing) and the empty Maps and Sets
DeadCodeStart ==
    /\ dPc = "start"
    /\ dPc' = "definitions"
    /\ dIdx' = 1
    /\ allFunctions' = NewMap(allFunctions)
    /\ allVariables' = NewMap(allVariables)
    /\ allSignals' = NewMap(allSignals)
    /\ usages' = {}
    /\ stringReferences' = {}
    /\ UNCHANGED <<rootExists, files, sceneFiles, report>>
    /\ UNCHANGED outsideB

\* one iteration of the phase 1 loop "for (const file of files)";
\* readFileSync on a file that cannot be read throws
CollectDefinitions ==
    /\ dPc = "definitions"
    /\ dIdx <= Len(files)
    /\ LET maps == DefineLines([fs |-> allFunctions, vs |-> allVariables, gs |-> allSignals],
                               files[dIdx].path, files[dIdx].lines, 1)
       IN IF files[dIdx].stat # "ok"
          THEN dPc' = "threw" /\ UNCHANGED <<allFunctions, allVariables, allSignals, dIdx>>
          ELSE /\ allFunctions' = maps.fs
               /\ allVariables' = maps.vs
               /\ allSignals' = maps.gs
               /\ dIdx' = dIdx + 1
               /\ UNCHANGED dPc
    /\ UNCHANGED <<rootExists, files, sceneFiles, usages, stringReferences, report>>
    /\ UNCHANGED outsideB

\* the end of the phase 1 loop
DefinitionsDone ==
    /\ dPc = "definitions"
    /\ dIdx > Len(files)
    /\ dPc' = "usages"
    /\ dIdx' = 1
    /\ UNCHANGED <<rootExists, files, sceneFiles, allFunctions, allVariables, allSignals, usages, stringReferences, report>>
    /\ UNCHANGED outsideB

\* one iteration of the phase 2 loop "for (const file of files)"
CollectUsages ==
    /\ dPc = "usages"
    /\ dIdx <= Len(files)
    /\ IF files[dIdx].stat # "ok"
       THEN dPc' = "threw" /\ UNCHANGED <<usages, stringReferences, dIdx>>
       ELSE /\ usages' = AddAll(usages, FileUsages(files[dIdx].lines))
            /\ stringReferences' = AddAll(stringReferences, FileStringReferences(files[dIdx].lines))
            /\ dIdx' = dIdx + 1
            /\ UNCHANGED dPc
    /\ UNCHANGED <<rootExists, files, sceneFiles, allFunctions, allVariables, allSignals, report>>
    /\ UNCHANGED outsideB

\* the end of the phase 2 loop and the glob of the .tscn files
UsagesDone ==
    /\ dPc = "usages"
    /\ dIdx > Len(files)
    /\ dPc' = "scenes"
    /\ dIdx' = 1
    /\ UNCHANGED <<rootExists, files, sceneFiles, allFunctions, allVariables, allSignals, usages, stringReferences, report>>
    /\ UNCHANGED outsideB

\* one iteration of "for (const file of sceneFiles)"
ScanScene ==
    /\ dPc = "scenes"
    /\ dIdx <= Len(sceneFiles)
    /\ IF sceneFiles[dIdx].stat # "ok"
       THEN dPc' = "threw" /\ UNCHANGED <<usages, stringReferences, dIdx>>
       ELSE /\ usages' = AddAll(usages, SceneUsages(sceneFiles[dIdx].lines))
            /\ stringReferences' = AddAll(stringReferences, SceneStringReferences(sceneFiles[dIdx].lines))
            /\ dIdx' = dIdx + 1
            /\ UNCHANGED dPc
    /\ UNCHANGED <<rootExists, files, sceneFiles, allFunctions, allVariables, allSignals, report>>
    /\ UNCHANGED outsideB

\* phase 3 and the returned report
DecideDead ==
    /\ dPc = "scenes"
    /\ dIdx > Len(sceneFiles)
    /\ LET deadFunctions == SelectDead(allFunctions, {e.key : e \in {x \in Range(allFunctions) : FunctionVerdict(x) = "dead"}})
           deadVariables == SelectDead(allVariables, {e.key : e \in {x \in Range(allVariables) : VariableIsDead(x)}})
           deadSignals == SelectDead(allSignals, {e.key : e \in {x \in Range(allSignals) : SignalIsDead(x)}})
           totalAnalyzed == Len(allFunctions) + Len(allVariables) + Len(allSignals)
           totalDead == TotalDead(deadFunctions, deadVariables, deadSignals)
       IN report' = [returned |-> TRUE,
                     isError |-> FALSE,
                     total_functions |-> Len(allFunctions),
                     potentially_dead_functions |-> Len(deadFunctions),
                     total_variables |-> Len(allVariables),
                     potentially_dead_variables |-> Len(deadVariables),
                     total_signals |-> Len(allSignals),
                     potentially_dead_signals |-> Len(deadSignals),
                     detection_rate |-> PercentText(IF totalAnalyzed > 0 THEN RoundPercent(totalDead, totalAnalyzed) ELSE 0),
                     excluded_as_public_api |-> CountVerdict(allFunctions, "api"),
                     excluded_as_documented |-> CountVerdict(allFunctions, "documented"),
                     files_analyzed |-> Len(files),
                     dead_functions |-> Slice(deadFunctions),
                     dead_variables |-> Slice(deadVariables),
                     dead_signals |-> Slice(deadSignals)]
    /\ dPc' = "done"
    /\ UNCHANGED <<rootExists, files, sceneFiles, allFunctions, allVariables, allSignals, usages, stringReferences, dIdx>>
    /\ UNCHANGED outsideB

(***************************************************************************)
(* Specification of part B.                                                *)
(***************************************************************************)
\* no call of analyzeAutoloads is running
AutoloadIdle ==
    /\ manifest = NoFile
    /\ fileWords = EmptyMap
    /\ AutoloadLocals
    /\ aPc = "idle"

\* a call of detectDeadCode on any corpus within the bounds
InitDeadCode ==
    /\ \/ rootExists = TRUE /\ files \in Corpora /\ sceneFiles \in SceneCorpora
       \/ rootExists = FALSE /\ files = <<>> /\ sceneFiles = <<>>
    /\ allFunctions = <<>>
    /\ allVariables = <<>>
    /\ allSignals = <<>>
    /\ usages = {}
    /\ stringReferences = {}
    /\ dIdx = 1
    /\ report = [returned |-> FALSE]
    /\ dPc = "start"
    /\ AutoloadIdle
    /\ RestIdle

\* the steps of the method itself
NextDeadCodeSteps ==
    \/ DeadCodeStart
    \/ CollectDefinitions
    \/ DefinitionsDone
    \/ CollectUsages
    \/ UsagesDone
    \/ ScanScene
    \/ DecideDead

NextDeadCode ==
    \/ DeadCodeStart
    \/ CollectDefinitions
    \/ DefinitionsDone
    \/ CollectUsages
    \/ UsagesDone
    \/ ScanScene
    \/ DecideDead
    \/ HandlerReturn
    \/ HandlerCatch

SpecDeadCode == InitDeadCode /\ [][NextDeadCode]_vars

\* a project of one script, and the script the author adds to it: at most
\* MaxLines lines in both
GrownCorpora == {c \in Corpora : \A i \in 1..Len(c) : c[i].stat = "ok"}

\* a script of n variables nothing uses
UnusedVars(n) == [k \in 1..n |-> VarLine(SeriesId(k))]

\* a project whose first script declares up to MaxDeclared unused variables
\* and whose second script holds a line of the pool or none
LongCorpora ==
    {<<[path |-> PathTable[1], stat |-> "ok", lines |-> UnusedVars(n)],
       [path |-> PathTable[2], stat |-> "ok", lines |-> t[1]]>> :
        n \in 0..MaxDeclared, t \in Texts(1, 1)}

InitLongReport ==
    /\ rootExists = TRUE
    /\ files \in LongCorpora
    /\ sceneFiles \in SceneCorpora
    /\ allFunctions = <<>>
    /\ allVariables = <<>>
    /\ allSignals = <<>>
    /\ usages = {}
    /\ stringReferences = {}
    /\ dIdx = 1
    /\ report = [returned |-> FALSE]
    /\ dPc = "start"
    /\ AutoloadIdle
    /\ RestIdle

SpecLongReport == InitLongReport /\ [][NextDeadCodeSteps]_vars

\* between two calls the author adds a script or a scene to the project
AddFile ==
    /\ dPc = "done"
    /\ ~before.seen
    /\ before' = [seen |-> TRUE, usages |-> usages, stringReferences |-> stringReferences,
                  fs |-> allFunctions, vs |-> allVariables, gs |-> allSignals, report |-> report]
    /\ \/ \E c \in GrownCorpora :
            /\ SubSeq(c, 1, Len(files)) = files
            /\ files' = c
            /\ UNCHANGED sceneFiles
       \/ \E s \in SceneCorpora :
            /\ sceneFiles = <<>> /\ s # <<>> /\ s[1].stat = "ok"
            /\ sceneFiles' = s
            /\ UNCHANGED files
    /\ dPc' = "start"
    /\ report' = [returned |-> FALSE]
    /\ UNCHANGED <<rootExists, allFunctions, allVariables, allSignals, usages, stringReferences, dIdx>>
    /\ UNCHANGED <<aVars, gVars, cVars, eVars, hVars, fVars, sVars, lVars>>

\* a call of detectDeadCode on a project of one script
InitGrowing ==
    /\ \E c \in GrownCorpora : files = SubSeq(c, 1, 1)
    /\ rootExists = TRUE
    /\ sceneFiles = <<>>
    /\ allFunctions = <<>>
    /\ allVariables = <<>>
    /\ allSignals = <<>>
    /\ usages = {}
    /\ stringReferences = {}
    /\ dIdx = 1
    /\ report = [returned |-> FALSE]
    /\ dPc = "start"
    /\ AutoloadIdle
    /\ RestIdle

NextGrowing ==
    \/ NextDeadCodeSteps
    \/ AddFile

SpecGrowing == InitGrowing /\ [][NextGrowing]_vars

(***************************************************************************)
(* Properties of part B.                                                   *)
(***************************************************************************)
\* the declarations written in the corpus, read off the text
CorpusFunctions ==
    {[path |-> files[i].path, line |-> j, name |-> FuncMatch(files[i].lines[j])[1],
      documented |-> HasDocComment(files[i].lines, j)] :
        <<i, j>> \in {q \in (1..Len(files)) \X (1..MaxLines) : q[2] <= Len(files[q[1]].lines) /\ FuncMatch(files[q[1]].lines[q[2]]) # <<>>}}

\* a line that carries the export annotation, bare or with a sub-variant
\* suffix, and declares a variable: <<name>> or <<>>
ExportedVarOnLine(line) ==
    IF /\ TokAt(line.toks, 1) = P("@")
       /\ TokAt(line.toks, 2).t = "w" /\ TokAt(line.toks, 2).id.pre = "export"
       /\ \E k \in Positions(line.toks) : line.toks[k] = Kw("var") /\ TokAt(line.toks, k + 1).t = "w"
    THEN <<Text(line.toks[(CHOOSE k \in Positions(line.toks) : line.toks[k] = Kw("var") /\ TokAt(line.toks, k + 1).t = "w") + 1].id)>>
    ELSE <<>>

CorpusExportedVariables ==
    {[path |-> files[i].path, line |-> j, name |-> ExportedVarOnLine(files[i].lines[j])[1]] :
        <<i, j>> \in {q \in (1..Len(files)) \X (1..MaxLines) : q[2] <= Len(files[q[1]].lines) /\ ExportedVarOnLine(files[q[1]].lines[q[2]]) # <<>>}}

\* the declaration decl is an entry of the list
Listed(list, decl) == \E k \in 1..Len(list) : list[k].name = decl.name /\ list[k].value.file = decl.path /\ list[k].value.line = decl.line

\* how often the word occurs in the scanned corpus, scenes included
Occurrences(name) ==
    Cardinality({q \in (1..Len(files)) \X (1..MaxLines) \X (1..8) :
                    /\ q[2] <= Len(files[q[1]].lines)
                    /\ q[3] <= Len(files[q[1]].lines[q[2]].toks)
                    /\ files[q[1]].lines[q[2]].toks[q[3]].t \in {"w", "str"}
                    /\ Text(files[q[1]].lines[q[2]].toks[q[3]].id) = name})
    + Cardinality({q \in (1..Len(sceneFiles)) \X (1..1) \X (1..8) :
                    /\ q[2] <= Len(sceneFiles[q[1]].lines)
                    /\ q[3] <= Len(sceneFiles[q[1]].lines[q[2]].toks)
                    /\ sceneFiles[q[1]].lines[q[2]].toks[q[3]].t \in {"w", "str"}
                    /\ Text(sceneFiles[q[1]].lines[q[2]].toks[q[3]].id) = name})

Reserved(name) == IsSignalHandler(name) \/ name \in VIRTUAL_METHODS

\* C6: in detectDeadCode a declared function whose name is in the usage set
\* built from the corpus is never listed in dead_functions, whatever its
\* privacy, documentation or name prefix.
C6_UsedFunctionNeverDead ==
    dPc = "done" =>
        \A f \in CorpusFunctions : f.name \in usages => ~Listed(report.dead_functions, f)

C6_Witness ==
    /\ dPc = "done"
    /\ \E f \in CorpusFunctions :
          /\ f.name = Text(HelperId) /\ ~f.documented
          /\ \E i \in 1..Len(files) : CallLine(HelperId) \in Range(files[i].lines)
          /\ f.name \in usages
          /\ ~Listed(report.dead_functions, f)

\* C7: no function, variable or signal whose name has the _on_ prefix or is
\* in the virtual-method allowlist is ever reported in dead_functions,
\* dead_variables or dead_signals, even when the name is used nowhere.
C7_ReservedNamesNeverDead ==
    dPc = "done" =>
        \A d \in Range(report.dead_functions) \cup Range(report.dead_variables) \cup Range(report.dead_signals) : ~Reserved(d.name)

C7_Witness ==
    /\ dPc = "done"
    /\ \E i \in 1..Len(allVariables) : SplitName(allVariables[i].key) = Text(HandlerId)
    /\ Occurrences(Text(HandlerId)) = 1
    /\ report.dead_variables = <<>>

\* C8: a declaration is no usage of its own name: a function that is
\* private, undocumented, matches no exclusion rule and whose name occurs in
\* the corpus only on its own declaration line is reported in dead_functions.
C8_DeclarationIsNoUsage ==
    dPc = "done" =>
        \A f \in CorpusFunctions :
            (IsPrivate(f.name) /\ ~f.documented /\ ~Reserved(f.name) /\ ~MatchesPublicApi(f.name) /\ Occurrences(f.name) = 1)
                => Listed(report.dead_functions, f)

\* C9: a variable whose declaration line carries the export annotation, with
\* or without a sub-variant suffix, is never listed in dead_variables, even
\* when its name is not in the usage set.
C9_ExportedVariableNeverDead ==
    dPc = "done" =>
        \A v \in CorpusExportedVariables : ~Listed(report.dead_variables, v)

C9_Witness ==
    /\ dPc = "done"
    /\ \E v \in CorpusExportedVariables :
          /\ v.name \notin usages
          /\ \E i \in 1..Len(allVariables) : allVariables[i].value.isExported /\ allVariables[i].value.line = v.line /\ allVariables[i].value.file = v.path
          /\ ~Listed(report.dead_variables, v)

\* C10: every function listed in dead_functions is private, has no doc
\* comment on the preceding line and matches no public-API prefix; a function
\* that is public, or documented, or matches a public-API prefix is never
\* listed as dead but is counted among the excluded ones.
C10_OnlyPrivateUndocumentedDead ==
    dPc = "done" =>
        /\ \A d \in Range(report.dead_functions) : d.value.isPrivate /\ ~d.value.hasDocComment /\ ~MatchesPublicApi(d.name)
        /\ \A f \in CorpusFunctions : (~IsPrivate(f.name) \/ f.documented \/ MatchesPublicApi(f.name)) => ~Listed(report.dead_functions, f)
        /\ report.excluded_as_public_api + report.excluded_as_documented
              >= Cardinality({f \in CorpusFunctions : ~Reserved(f.name) /\ Occurrences(f.name) = 1
                                    /\ (~IsPrivate(f.name) \/ f.documented \/ MatchesPublicApi(f.name))})

(***************************************************************************)
(* PART C - analyzeSignalFlow.  Lines are in the text model of part B.     *)
(***************************************************************************)
\* the signal names of the corpora
HitSig == Id("", "hit")

DiedSig == Id("", "died")

\* a name every plain JavaScript object inherits from Object.prototype
ConstructorSig == Id("", "constructor")

SignalIds == {HitSig, DiedSig}

\* `    hit.emit()`
EmitLine(id) == Line(1, <<W(id), P("."), Kw("emit"), P("("), P(")")>>)

\* `    died.emit(); hit.emit()`: two statements on one line
TwoEmitLine(a, b) == Line(1, <<W(a), P("."), Kw("emit"), P("("), P(")"), P(";"), W(b), P("."), Kw("emit"), P("("), P(")")>>)

\* `    hit.emit(spawn,`: the argument list goes on on the next line
OpenEmitLine(id) == Line(1, <<W(id), P("."), Kw("emit"), P("("), W(SpawnId), P(",")>>)

\* `    hit.connect(_on_hit)`
ConnectLine(id) == Line(1, <<W(id), P("."), Kw("connect"), P("("), W(HandlerId), P(")")>>)

\* `    spawn.hit.connect(_on_hit)`
QualifiedConnectLine(id) == Line(1, <<W(SpawnId), P("."), W(id), P("."), Kw("connect"), P("("), W(HandlerId), P(")")>>)

\* `    died.connect(_on_hit); spawn.hit.connect(_on_hit)`
MixedConnectLine == Line(1, <<W(DiedSig), P("."), Kw("connect"), P("("), W(HandlerId), P(")"), P(";"), W(SpawnId), P("."), W(HitSig), P("."), Kw("connect"), P("("), W(HandlerId), P(")")>>)

FlowLinePool ==
    {SignalLine(id) : id \in SignalIds}
    \cup {MixedConnectLine}
    \cup {SignalLine(ConstructorSig), EmitLine(ConstructorSig)}
    \cup {EmitLine(id) : id \in SignalIds}
    \cup {TwoEmitLine(DiedSig, HitSig), TwoEmitLine(HitSig, DiedSig)}
    \cup {OpenEmitLine(HitSig)}
    \cup {ConnectLine(id) : id \in SignalIds}
    \cup {QualifiedConnectLine(HitSig)}

\* the texts of n files holding at most budget lines of the pool in all
RECURSIVE TextsOf(_, _, _)
TextsOf(pool, n, budget) ==
    IF n = 0 THEN {<<>>}
    ELSE UNION {{<<ls>> \o rest : ls \in [1..k -> pool], rest \in TextsOf(pool, n - 1, budget - k)} : k \in 0..budget}

\* the files of a project; a file that cannot be read shows no text
FlowCorpora ==
    {[i \in 1..Len(t) |-> [path |-> PathTable[i], stat |-> st[i], lines |-> t[i]]] :
        <<t, st>> \in {q \in TextsOf(FlowLinePool, Len(PathTable), MaxLines) \X [1..Len(PathTable) -> FileStats] :
                          \A i \in 1..Len(PathTable) : q[2][i] # "ok" => q[1][i] = <<>>}}

\* the position of the first ')' after position j of the line (0 when none)
ClosingAfter(toks, j) ==
    IF \E c \in Positions(toks) : c > j /\ toks[c].t = ")"
    THEN CHOOSE c \in Positions(toks) : c > j /\ toks[c].t = ")" /\ \A m \in (j + 1)..(c - 1) : toks[m].t # ")"
    ELSE 0

\* the leftmost position of a set of match positions, as <<position>> or <<>>
Leftmost(S) == IF S = {} THEN <<>> ELSE <<CHOOSE j \in S : \A k \in S : j <= k>>

\* line.match(/^signal\s+(\w+)(?:\(([^)]*)\))?/): <<name>> or <<>>
FlowSignalMatch(line) ==
    IF line.indent = 0 /\ TokAt(line.toks, 1) = Kw("signal") /\ TokAt(line.toks, 2).t = "w"
    THEN <<Text(line.toks[2].id)>> ELSE <<>>

\* line.match(/(\w+)\.(\w+)\.connect\(([^)]+)\)/): the first match of the
\* line, as <<signal>> (capture 2) or <<>>
ConnectMatch(toks) ==
    LET at == Leftmost({j \in Positions(toks) :
                  /\ IsWord(toks, j) /\ TokAt(toks, j + 1).t = "." /\ IsWord(toks, j + 2)
                  /\ TokAt(toks, j + 3).t = "." /\ IsKw(toks, j + 4, {"connect"}) /\ TokAt(toks, j + 5).t = "("
                  /\ ClosingAfter(toks, j + 5) > j + 6})
    IN IF at = <<>> THEN <<>> ELSE <<Text(toks[at[1] + 2].id)>>

\* line.match(/(\w+)\.connect\(([^)]+)\)/): the first match of the line, as
\* <<signal>> (capture 1) or <<>>
ShortConnectMatch(toks) ==
    LET at == Leftmost({j \in Positions(toks) :
                  /\ IsWord(toks, j) /\ TokAt(toks, j + 1).t = "." /\ IsKw(toks, j + 2, {"connect"})
                  /\ TokAt(toks, j + 3).t = "(" /\ ClosingAfter(toks, j + 3) > j + 4})
    IN IF at = <<>> THEN <<>> ELSE <<Text(toks[at[1]].id)>>

\* line.match(/(\w+)\.emit\(([^)]*)\)/): the first match of the line, as the
\* set of the signal it captures (empty when the line has no match)
EmitMatch(toks) ==
    LET at == Leftmost({j \in Positions(toks) :
                  /\ IsWord(toks, j) /\ TokAt(toks, j + 1).t = "." /\ IsKw(toks, j + 2, {"emit"})
                  /\ TokAt(toks, j + 3).t = "(" /\ ClosingAfter(toks, j + 3) > 0})
    IN IF at = <<>> THEN {} ELSE {Text(toks[at[1]].id)}

\* the two pushes without the "&& !connectMatch" of the second
LineConnectionsBoth(c, h, path, i) ==
    (IF c # <<>> THEN <<[file |-> path, line |-> i, signal |-> c[1]]>> ELSE <<>>)
    \o (IF h # <<>> THEN <<[file |-> path, line |-> i, signal |-> h[1]]>> ELSE <<>>)

\* "if (connectMatch) connections.push(...)" and "if (shortConnectMatch &&
\* !connectMatch) connections.push(...)": what line i adds to connections
LineConnections(c, h, path, i) ==
    (IF c # <<>> THEN <<[file |-> path, line |-> i, signal |-> c[1]]>> ELSE <<>>)
    \o (IF h # <<>> /\ c = <<>> THEN <<[file |-> path, line |-> i, signal |-> h[1]]>> ELSE <<>>)

\* the body of "for (let i = 0; ...)" on line i: what it pushes where
RECURSIVE FlowLines(_, _, _, _)
FlowLines(acc, path, lines, i) ==
    IF i > Len(lines) THEN acc
    ELSE LET toks == lines[i].toks
             g == FlowSignalMatch(lines[i])
             c == ConnectMatch(toks)
             h == ShortConnectMatch(toks)
             e == EmitMatch(toks)
             sg == IF g # <<>> THEN Append(acc.sg, [file |-> path, line |-> i, name |-> g[1]]) ELSE acc.sg
             cn == acc.cn \o LineConnections(c, h, path, i)
             em == IF e # {} THEN Append(acc.em, [file |-> path, line |-> i, signal |-> CHOOSE x \in e : TRUE]) ELSE acc.em
         IN FlowLines([sg |-> sg, cn |-> cn, em |-> em], path, lines, i + 1)

\* the names of the corpora that a plain object ({}) answers without having
\* them as keys: flowGraph["constructor"] is the function Object
InheritedNames == {"constructor"}

\* flowGraph: "if (!flowGraph[signal.name]) flowGraph[signal.name] = {...}"
\* gives a key to every declared name the empty object does not answer
\* already; then the connections and the emissions of the keys
FlowGraph(sg, cn, em) ==
    [n \in {sg[i].name : i \in 1..Len(sg)} \ InheritedNames |->
        [defined_in |-> sg[CHOOSE i \in 1..Len(sg) : sg[i].name = n /\ \A k \in 1..(i - 1) : sg[k].name # n].file,
         connected_to |-> SelectSeq(cn, LAMBDA x : x.signal = n),
         emitted_from |-> SelectSeq(em, LAMBDA x : x.signal = n)]]

\* a TypeError in the three loops after the scan: for an inherited name
\* flowGraph[name] is truthy but has no connected_to and no emitted_from, so
\* ".connected_to.push", ".emitted_from.push" and ".connected_to.length" throw
GraphThrows(sg, cn, em) ==
    \/ \E k \in 1..Len(cn) : cn[k].signal \in InheritedNames
    \/ \E k \in 1..Len(em) : em[k].signal \in InheritedNames
    \/ \E k \in 1..Len(sg) : sg[k].name \in InheritedNames

\* signals.filter(s => flow && no connection && no emission)
OrphanSignals(sg, graph) ==
    SelectSeq(sg, LAMBDA x : graph[x.name].connected_to = <<>> /\ graph[x.name].emitted_from = <<>>)

\* the glob of the .gd files and the three empty lists
SignalFlowStart ==
    /\ gPc = "start"
    /\ gPc' = "scan"
    /\ gIdx' = 1
    /\ signals' = NewMap(signals)
    /\ connections' = NewMap(connections)
    /\ emissions' = NewMap(emissions)
    /\ UNCHANGED <<flowFiles, flowReport>>
    /\ UNCHANGED outsideC

\* one iteration of "for (const file of files)": a file that is gone is
\* skipped, readFileSync on a file that cannot be read throws
ScanSignalFile ==
    /\ gPc = "scan"
    /\ gIdx <= Len(flowFiles)
    /\ LET file == flowFiles[gIdx]
           acc == FlowLines([sg |-> signals, cn |-> connections, em |-> emissions], file.path, file.lines, 1)
       IN IF file.stat = "missing"
          THEN gIdx' = gIdx + 1 /\ UNCHANGED <<signals, connections, emissions, gPc>>
          ELSE IF file.stat = "unreadable"
          THEN gPc' = "threw" /\ UNCHANGED <<signals, connections, emissions, gIdx>>
          ELSE /\ signals' = acc.sg
               /\ connections' = acc.cn
               /\ emissions' = acc.em
               /\ gIdx' = gIdx + 1
               /\ UNCHANGED gPc
    /\ UNCHANGED <<flowFiles, flowReport>>
    /\ UNCHANGED outsideC

\* the flow graph, the orphan filter and the returned report
BuildSignalFlow ==
    /\ gPc = "scan"
    /\ gIdx > Len(flowFiles)
    /\ IF GraphThrows(signals, connections, emissions)
       THEN gPc' = "threw" /\ UNCHANGED flowReport
       ELSE LET graph == FlowGraph(signals, connections, emissions)
                orphanSignals == OrphanSignals(signals, graph)
            IN /\ flowReport' = [returned |-> TRUE,
                                 isError |-> FALSE,
                                 total_signals_defined |-> Len(signals),
                                 total_connections |-> Len(connections),
                                 total_emissions |-> Len(emissions),
                                 signal_flow |-> graph,
                                 orphan_signals |-> orphanSignals,
                                 all_connections |-> connections,
                                 all_emissions |-> emissions]
               /\ gPc' = "done"
    /\ UNCHANGED <<flowFiles, signals, connections, emissions, gIdx>>
    /\ UNCHANGED outsideC

\* a call of analyzeSignalFlow on any corpus within the bounds
InitSignalFlow ==
    /\ flowFiles \in FlowCorpora
    /\ signals = <<>>
    /\ connections = <<>>
    /\ emissions = <<>>
    /\ gIdx = 1
    /\ flowReport = [returned |-> FALSE]
    /\ gPc = "start"
    /\ AutoloadIdle
    /\ DeadCodeIdle
    /\ ComplexityIdle
    /\ DuplicationIdle
    /\ HandlerIdle
    /\ ProcessIdle
    /\ SessionIdle
    /\ GrowthIdle
    /\ LspIdle

\* the steps of the method itself
NextSignalFlowSteps ==
    \/ SignalFlowStart
    \/ ScanSignalFile
    \/ BuildSignalFlow

NextSignalFlow ==
    \/ SignalFlowStart
    \/ ScanSignalFile
    \/ BuildSignalFlow
    \/ HandlerReturn
    \/ HandlerCatch

SpecSignalFlow == InitSignalFlow /\ [][NextSignalFlow]_vars

(***************************************************************************)
(* Properties of part C.                                                   *)
(***************************************************************************)
\* the lines of the files the scan reads
FlowText == {flowFiles[i].lines[j] : <<i, j>> \in {q \in (1..Len(flowFiles)) \X (1..(MaxLines + 1)) : q[2] <= Len(flowFiles[q[1]].lines)}}

\* the word is followed by .verb( somewhere on the line
InContext(line, name, verb) ==
    \E j \in Positions(line.toks) :
        /\ IsWord(line.toks, j) /\ Text(line.toks[j].id) = name
        /\ TokAt(line.toks, j + 1).t = "." /\ IsKw(line.toks, j + 2, {verb}) /\ TokAt(line.toks, j + 3).t = "("

\* the word is emitted by a complete statement somewhere on the line
Emitted(line, name) ==
    \E j \in Positions(line.toks) :
        /\ IsWord(line.toks, j) /\ Text(line.toks[j].id) = name
        /\ TokAt(line.toks, j + 1).t = "." /\ IsKw(line.toks, j + 2, {"emit"}) /\ TokAt(line.toks, j + 3).t = "("
        /\ TokAt(line.toks, j + 4).t = ")"

IsOrphan(name) == \E k \in 1..Len(flowReport.orphan_signals) : flowReport.orphan_signals[k].name = name

\* C11: in analyzeSignalFlow a declared signal is listed in orphan_signals
\* if and only if its name appears in no .connect( and no .emit( context in
\* the scanned corpus; one emission of the name anywhere, on any line and at
\* any position of the line, keeps the signal off the list.
C11_OrphanIffNoContext ==
    gPc = "done" =>
        /\ \A k \in 1..Len(signals) :
              IsOrphan(signals[k].name) <=> ~\E line \in FlowText : InContext(line, signals[k].name, "connect") \/ InContext(line, signals[k].name, "emit")
        /\ \A k \in 1..Len(signals) :
              (\E line \in FlowText : Emitted(line, signals[k].name)) => ~IsOrphan(signals[k].name)

(***************************************************************************)
(* PART D - the two complexity counters.  A blank that follows a           *)
(* punctuation mark is the token P(" "); a word is followed by a blank     *)
(* when the next token is a word.                                          *)
(***************************************************************************)
Blank == P(" ")

\* `    if a:`
IfLine == Line(1, <<Kw("if"), Kw("a"), P(":")>>)

\* `    if(a):`
IfParenLine == Line(1, <<Kw("if"), P("("), Kw("a"), P(")"), P(":")>>)

\* `    if a: return 1 else: return 2`
ScenarioOneLine == Line(1, <<Kw("if"), Kw("a"), P(":"), Kw("return"), Kw("1"), Kw("else"), P(":"), Kw("return"), Kw("2")>>)

\* `    for i in range(3): if i: pass`
ScenarioTwoLine == Line(1, <<Kw("for"), Kw("i"), Kw("in"), Kw("range"), P("("), Kw("3"), P(")"), P(":"), Blank, Kw("if"), Kw("i"), P(":"), Blank, Kw("pass")>>)

\* `    # if elif else: for while match and or ? x: y`
KeywordCommentLine ==
    Line(1, <<P("#"), Blank, Kw("if"), Kw("elif"), Kw("else"), P(":"), Blank, Kw("for"), Kw("while"), Kw("match"),
              Kw("and"), Kw("or"), Blank, P("?"), Blank, Kw("x"), P(":"), Blank, Kw("y")>>)

ComplexityLinePool ==
    {FuncLine(HelperId), IfLine, IfParenLine, ScenarioOneLine, ScenarioTwoLine, KeywordCommentLine}

\* the scripts: up to MaxScript lines of the pool
Scripts == UNION {[1..k -> ComplexityLinePool] : k \in 0..MaxScript}

\* the keywords both counters look for, besides the ternary shape
KeywordKinds == {"if", "elif", "else", "for", "while", "match", "and", "or"}

\* the word occurs on the line as a whole word, in code, text or comment
HasWord(toks, word) == \E j \in Positions(toks) : toks[j].t \in {"w", "str"} /\ Text(toks[j].id) = word

\* /\?\s*[^:]+\s*:/.test(trimmed)
TernaryShaped(toks) ==
    \E j \in Positions(toks) : toks[j].t = "?" /\ \E c \in Positions(toks) : c > j + 1 /\ toks[c].t = ":" /\ \A m \in (j + 1)..(c - 1) : toks[m].t # ":"

\* the nine tests of analyzeFunctionComplexity on one line: how many hold
HeatmapHits(line) == Cardinality({k \in KeywordKinds : HasWord(line.toks, k)}) + (IF TernaryShaped(line.toks) THEN 1 ELSE 0)

\* the word at position j is followed by a white-space character
SpaceAfter(toks, j) == TokAt(toks, j + 1).t \in {"w", " "}

\* /\bword\s/.test(line)
WordThenSpace(toks, word) == \E j \in Positions(toks) : toks[j].t = "w" /\ Text(toks[j].id) = word /\ SpaceAfter(toks, j)

\* the nine patterns of complexityKeywords on one line: how many match
QualityHits(line) ==
    Cardinality({k \in KeywordKinds \ {"else"} : WordThenSpace(line.toks, k)})
    + (IF \E j \in Positions(line.toks) : line.toks[j] = Kw("else") /\ TokAt(line.toks, j + 1).t = ":" THEN 1 ELSE 0)
    + (IF \E j \in Positions(line.toks) : line.toks[j].t = "?" /\ TokAt(line.toks, j + 1).t = " " THEN 1 ELSE 0)

\* trimmed.match(/^func\s+(\w+)/): <<name>> or <<>>
FuncHead(line) ==
    IF TokAt(line.toks, 1) = Kw("func") /\ TokAt(line.toks, 2).t = "w" THEN <<Text(line.toks[2].id)>> ELSE <<>>

NoFunc == [name |-> "", startLine |-> 0, complexity |-> 0]

\* the loop of analyzeFunctionComplexity from line i on; the line of a
\* declaration is tested for keywords like every other line
RECURSIVE HeatmapLoop(_, _, _, _)
HeatmapLoop(lines, i, currentFunc, out) ==
    IF i > Len(lines) THEN (IF currentFunc # NoFunc THEN Append(out, currentFunc) ELSE out)
    ELSE LET f == FuncHead(lines[i])
             pushed == IF f # <<>> /\ currentFunc # NoFunc THEN Append(out, currentFunc) ELSE out
             cur == IF f # <<>> THEN [name |-> f[1], startLine |-> i, complexity |-> 1] ELSE currentFunc
             counted == IF cur # NoFunc THEN [cur EXCEPT !.complexity = @ + HeatmapHits(lines[i])] ELSE cur
         IN HeatmapLoop(lines, i + 1, counted, pushed)

analyzeFunctionComplexity(lines) == HeatmapLoop(lines, 1, NoFunc, <<>>)

\* getComplexityGrade
getComplexityGrade(complexity) ==
    IF complexity <= 5 THEN "A (simple)"
    ELSE IF complexity <= 10 THEN "B (moderate)"
    ELSE IF complexity <= 20 THEN "C (complex)"
    ELSE IF complexity <= 30 THEN "D (very complex)"
    ELSE "F (untestable)"

\* results.push({function, line, complexity, grade})
Graded(currentFunc) == [name |-> currentFunc.name, startLine |-> currentFunc.startLine, complexity |-> currentFunc.complexity, grade |-> getComplexityGrade(currentFunc.complexity)]

\* a line of calculateComplexity that overwrites the count instead of adding to it
AddHitsOverwriting(currentFunc, line) == [currentFunc EXCEPT !.complexity = 1 + QualityHits(line)]

\* "if (keyword.test(line)) currentFunc.complexity++" over the nine patterns
AddHits(currentFunc, line) == [currentFunc EXCEPT !.complexity = @ + QualityHits(line)]

\* the loop of calculateComplexity from line i on; the line of a declaration
\* is left by "continue" before the keyword tests
RECURSIVE QualityLoop(_, _, _, _)
QualityLoop(lines, i, currentFunc, out) ==
    IF i > Len(lines) THEN (IF currentFunc # NoFunc THEN Append(out, Graded(currentFunc)) ELSE out)
    ELSE LET f == FuncHead(lines[i])
         IN IF f # <<>>
            THEN QualityLoop(lines, i + 1, [name |-> f[1], startLine |-> i, complexity |-> 1],
                             IF currentFunc # NoFunc THEN Append(out, Graded(currentFunc)) ELSE out)
            ELSE QualityLoop(lines, i + 1, IF currentFunc # NoFunc THEN AddHits(currentFunc, lines[i]) ELSE currentFunc, out)

calculateComplexity(lines) == QualityLoop(lines, 1, NoFunc, <<>>)

\* getComplexityHeatmap hands the text of a file to analyzeFunctionComplexity
RunHeatmapCounter ==
    /\ ~functions.ran
    /\ functions' = [ran |-> TRUE, list |-> analyzeFunctionComplexity(content)]
    /\ UNCHANGED <<content, results, resultsBefore>>
    /\ UNCHANGED outsideD

\* getComplexity hands the text of a file to calculateComplexity
RunQualityCounter ==
    /\ ~results.ran
    /\ results' = [ran |-> TRUE, list |-> calculateComplexity(content)]
    /\ UNCHANGED <<content, functions, resultsBefore>>
    /\ UNCHANGED outsideD

\* the lines that hold the keyword if
IfLines == {l \in ComplexityLinePool : HasWord(l.toks, "if")}

\* s with x put in as its element number i
InsertAt(s, i, x) == SubSeq(s, 1, i - 1) \o <<x>> \o SubSeq(s, i, Len(s))

\* between two analyses of the file the author adds one line that contains
\* `if` to the body of a function
AddIfLine ==
    /\ functions.ran /\ results.ran
    /\ ~resultsBefore.ran
    /\ \E i \in 2..(Len(content) + 1) : \E l \in IfLines :
          /\ \E k \in 1..(i - 1) : FuncHead(content[k]) # <<>>
          /\ content' = InsertAt(content, i, l)
    /\ resultsBefore' = results
    /\ results' = NotRun
    /\ functions' = NotRun
    /\ UNCHANGED outsideD

\* the two counters on any script within the bounds
InitComplexity ==
    /\ content \in Scripts
    /\ functions = NotRun
    /\ results = NotRun
    /\ resultsBefore = NotRun
    /\ AutoloadIdle
    /\ DeadCodeIdle
    /\ SignalFlowIdle
    /\ DuplicationIdle
    /\ HandlerIdle
    /\ ProcessIdle
    /\ SessionIdle
    /\ GrowthIdle
    /\ LspIdle

NextComplexity ==
    \/ RunHeatmapCounter
    \/ RunQualityCounter
    \/ AddIfLine

SpecComplexity == InitComplexity /\ [][NextComplexity]_vars

\* `var x = 1 if a else 2`: a statement of the script itself, at the
\* indentation of the func lines
TopLevelIfLine == Line(0, <<Kw("var"), Kw("x"), P("="), Kw("1"), Kw("if"), Kw("a"), Kw("else"), Kw("2")>>)

\* scripts in which functions are followed by statements of the script
SpanScripts == UNION {[1..k -> {FuncLine(HelperId), IfLine, TopLevelIfLine}] : k \in 0..MaxScript}

\* the two counters on scripts with statements between the functions
InitSpan ==
    /\ content \in SpanScripts
    /\ functions = NotRun
    /\ results = NotRun
    /\ resultsBefore = NotRun
    /\ AutoloadIdle
    /\ DeadCodeIdle
    /\ SignalFlowIdle
    /\ DuplicationIdle
    /\ HandlerIdle
    /\ ProcessIdle
    /\ SessionIdle
    /\ GrowthIdle
    /\ LspIdle

SpecSpan == InitSpan /\ [][NextComplexity]_vars

\* a line that ends the span of the function declared on line f: not
\* blank, no comment, and not indented deeper than the func line
EndsSpanOf(lines, f, k) ==
    /\ lines[k].toks # <<>>
    /\ lines[k].toks[1].t \notin {"#", "##"}
    /\ lines[k].indent <= lines[f].indent

\* the lines of the body of the function declared on line f
BodyOf(lines, f) == {j \in (f + 1)..Len(lines) : \A k \in (f + 1)..j : ~EndsSpanOf(lines, f, k)}

RECURSIVE HitsOver(_, _, _)
HitsOver(S, lines, counter) ==
    IF S = {} THEN 0
    ELSE LET j == CHOOSE x \in S : TRUE
         IN (IF counter = "heatmap" THEN HeatmapHits(lines[j]) ELSE QualityHits(lines[j])) + HitsOver(S \ {j}, lines, counter)

\* C24: a function's complexity counts keywords only on lines inside the
\* function's span: the span ends at the first non-blank, non-comment line
\* whose indentation is not deeper than the func line, and keywords on that
\* line or on later lines before the next func declaration leave the
\* function's complexity unchanged.
C24_ComplexityWithinSpan ==
    /\ functions.ran =>
          \A k \in 1..Len(functions.list) :
              functions.list[k].complexity =
                  1 + HeatmapHits(content[functions.list[k].startLine]) + HitsOver(BodyOf(content, functions.list[k].startLine), content, "heatmap")
    /\ results.ran =>
          \A k \in 1..Len(results.list) :
              results.list[k].complexity = 1 + HitsOver(BodyOf(content, results.list[k].startLine), content, "quality")

(***************************************************************************)
(* Properties of part D.                                                   *)
(***************************************************************************)
\* the keyword kinds present on a line
KindsPresent(line) == {k \in KeywordKinds : HasWord(line.toks, k)} \cup (IF TernaryShaped(line.toks) THEN {"ternary"} ELSE {})

\* the lines of the function declared on line i: from its declaration up
\* to the next declaration
LinesOf(lines, i) == {j \in i..Len(lines) : \A k \in (i + 1)..j : FuncHead(lines[k]) = <<>>}

RECURSIVE SumOver(_, _)
SumOver(S, lines) == IF S = {} THEN 0 ELSE LET j == CHOOSE x \in S : TRUE IN Cardinality(KindsPresent(lines[j])) + SumOver(S \ {j}, lines)

\* what the counting rule gives for every function of the script
ByTheRule(list) == \A k \in 1..Len(list) : list[k].complexity = 1 + SumOver(LinesOf(content, list[k].startLine), content)

\* C12: the complexity of a function is 1 plus, summed over its lines, the
\* number of keyword kinds (if, elif, else, for, while, match, and, or,
\* ternary) present on the line, each kind once per line; the bodies
\* `if a: return 1 else: return 2` and `for i in range(3): if i: pass` give
\* 3 each; every reported complexity is at least 1.
C12_ComplexityCountsKindsPerLine ==
    /\ functions.ran => ByTheRule(functions.list)
    /\ results.ran => ByTheRule(results.list)
    /\ \A r \in {functions, results} :
          /\ \A k \in 1..Len(r.list) : r.list[k].complexity >= 1
          /\ (r.ran /\ content = <<FuncLine(HelperId), ScenarioOneLine, FuncLine(HelperId), ScenarioTwoLine>>)
                => (Len(r.list) = 2 /\ r.list[1].complexity = 3 /\ r.list[2].complexity = 3)

\* the band of a grade: how many of the thresholds 5, 10, 20, 30 lie below it
GradeRank(grade) ==
    CASE grade = "A (simple)" -> 0
      [] grade = "B (moderate)" -> 1
      [] grade = "C (complex)" -> 2
      [] grade = "D (very complex)" -> 3
      [] grade = "F (untestable)" -> 4

\* C13: the grade is a monotone function of the complexity, with the bands
\* <=5 simple, <=10 moderate, <=20 complex, <=30 very complex, otherwise
\* untestable; adding one more line containing `if` to a function body never
\* lowers the grade band of the function.
C13_GradeMonotone ==
    /\ \A k \in 1..Len(results.list) :
          GradeRank(results.list[k].grade) = Cardinality({t \in {5, 10, 20, 30} : results.list[k].complexity > t})
    /\ (results.ran /\ resultsBefore.ran) =>
          /\ Len(results.list) = Len(resultsBefore.list)
          /\ \A k \in 1..Len(results.list) : GradeRank(results.list[k].grade) >= GradeRank(resultsBefore.list[k].grade)

C13_Witness ==
    /\ results.ran /\ resultsBefore.ran
    /\ \E k \in 1..Len(results.list) :
          /\ resultsBefore.list[k].grade = "D (very complex)"
          /\ results.list[k].grade = "F (untestable)"

(***************************************************************************)
(* PART E - findDuplication.  A line is the sequence of its characters, so *)
(* that trim, search, the three replacements of normalizeCode and the      *)
(* 32-bit hash are computed character by character.                        *)
(***************************************************************************)
\* the lines of the corpora
DeclF == <<"f", "u", "n", "c", " ", "f", "(", ")", ":">>

DeclG == <<"f", "u", "n", "c", " ", "g", "(", ")", ":">>

BodyLine == <<" ", "r", "e", "t", "u", "r", "n", " ", "1">>

BodyLineWide == <<" ", " ", "r", "e", "t", "u", "r", "n", " ", "1">>

BlankLine == <<>>

StatementLine == <<"v", "a", "r", " ", "x">>

\* a function, or a top-level statement: the pieces a file is made of
DupItemPool ==
    {<<DeclF, BodyLine>>, <<DeclF, BodyLineWide>>, <<DeclF, BlankLine, BodyLine>>,
     <<DeclG, BodyLine>>, <<StatementLine>>}

RECURSIVE Flatten(_)
Flatten(ss) == IF ss = <<>> THEN <<>> ELSE Head(ss) \o Flatten(Tail(ss))

\* the files of a project: at most MaxItems pieces in all
DupCorpora ==
    {[i \in 1..Len(t) |-> [path |-> PathTable[i], stat |-> st[i], lines |-> Flatten(t[i])]] :
        <<t, st>> \in {q \in TextsOf(DupItemPool, Len(PathTable), MaxItems) \X [1..Len(PathTable) -> {"ok", "unreadable"}] :
                          \A i \in 1..Len(PathTable) : q[2][i] # "ok" => q[1][i] = <<>>}}

\* String.prototype.charCodeAt for the characters of the corpora
CharTable == <<<<"\n", 10>>, <<" ", 32>>, <<"\"", 34>>, <<"#", 35>>, <<"(", 40>>, <<")", 41>>, <<"1", 49>>, <<":", 58>>, <<"N", 78>>, <<"a", 97>>, <<"c", 99>>, <<"e", 101>>, <<"f", 102>>, <<"g", 103>>, <<"n", 110>>, <<"r", 114>>, <<"t", 116>>, <<"u", 117>>, <<"v", 118>>, <<"x", 120>>>>

CharCode(c) == (CHOOSE q \in Range(CharTable) : q[1] = c)[2]

\* \s and \d
IsSpace(c) == c \in {" ", "\t"}

IsDigit(c) == c \in {"0", "1", "2", "3", "4", "5", "6", "7", "8", "9"}

RECURSIVE TrimStart(_)
TrimStart(s) == IF s # <<>> /\ IsSpace(Head(s)) THEN TrimStart(Tail(s)) ELSE s

RECURSIVE TrimEnd(_)
TrimEnd(s) == IF s # <<>> /\ IsSpace(s[Len(s)]) THEN TrimEnd(SubSeq(s, 1, Len(s) - 1)) ELSE s

\* String.prototype.trim
Trim(s) == TrimEnd(TrimStart(s))

\* String.prototype.startsWith
StartsWith(s, prefix) == Len(s) >= Len(prefix) /\ SubSeq(s, 1, Len(prefix)) = prefix

FuncPrefix == <<"f", "u", "n", "c", " ">>

\* line.search(/\S/): the position of the first character that is no white
\* space, counted from 0; -1 when there is none
SearchNonSpace(line) == IF TrimStart(line) = <<>> THEN -1 ELSE Len(line) - Len(TrimStart(line))

\* l.replace(/\s+/g, " ")
RECURSIVE CollapseSpace(_)
CollapseSpace(s) ==
    IF s = <<>> THEN <<>>
    ELSE IF IsSpace(Head(s)) THEN <<" ">> \o CollapseSpace(TrimStart(s))
    ELSE <<Head(s)>> \o CollapseSpace(Tail(s))

\* the position of the first '"' of s after position j (0 when none)
NextQuote(s, j) ==
    IF \E c \in (j + 1)..Len(s) : s[c] = "\""
    THEN CHOOSE c \in (j + 1)..Len(s) : s[c] = "\"" /\ \A m \in (j + 1)..(c - 1) : s[m] # "\""
    ELSE 0

\* l.replace(/"[^"]*"/g, '""')
RECURSIVE RedactStrings(_)
RedactStrings(s) ==
    IF s = <<>> THEN <<>>
    ELSE IF Head(s) = "\"" /\ NextQuote(s, 1) > 0
         THEN <<"\"", "\"">> \o RedactStrings(SubSeq(s, NextQuote(s, 1) + 1, Len(s)))
         ELSE <<Head(s)>> \o RedactStrings(Tail(s))

RECURSIVE DropDigits(_)
DropDigits(s) == IF s # <<>> /\ IsDigit(Head(s)) THEN DropDigits(Tail(s)) ELSE s

\* l.replace(/\d+/g, "N")
RECURSIVE RedactDigits(_)
RedactDigits(s) ==
    IF s = <<>> THEN <<>>
    ELSE IF IsDigit(Head(s)) THEN <<"N">> \o RedactDigits(DropDigits(s))
    ELSE <<Head(s)>> \o RedactDigits(Tail(s))

\* Array.prototype.join("\n")
RECURSIVE JoinLines(_)
JoinLines(ls) ==
    IF ls = <<>> THEN <<>>
    ELSE IF Len(ls) = 1 THEN ls[1]
    ELSE ls[1] \o <<"\n">> \o JoinLines(Tail(ls))

\* normalizeCode
normalizeCode(lines) ==
    LET trimmed == [k \in 1..Len(lines) |-> Trim(lines[k])]
        kept == SelectSeq(trimmed, LAMBDA l : l # <<>> /\ ~StartsWith(l, <<"#">>))
    IN JoinLines([k \in 1..Len(kept) |-> RedactDigits(RedactStrings(CollapseSpace(kept[k])))])

\* "hash = ((hash << 5) - hash) + char; hash = hash & hash": 31 * hash + char
\* in 32 bits, kept as the two 16-bit halves <<high, low>>
HashStep(hash, char) ==
    LET low == hash[2] * 31 + char
        high == hash[1] * 31 + low \div 65536
    IN <<high % 65536, low % 65536>>

RECURSIVE HashLoop(_, _)
HashLoop(hash, str) == IF str = <<>> THEN hash ELSE HashLoop(HashStep(hash, CharCode(Head(str))), Tail(str))

\* hashCode: toString(16) writes a 32-bit value one-to-one, so the key of
\* the Map is the value itself
hashCode(str) == HashLoop(<<0, 0>>, str)

\* args.min_lines || 5
MinLines(arg) == IF arg = 0 THEN 5 ELSE arg

\* codeBlocks.has / set / get(hash).push(location)
AddBlock(blocks, hash, location) ==
    IF \E b \in 1..Len(blocks) : blocks[b].hash = hash
    THEN [b \in 1..Len(blocks) |-> IF blocks[b].hash = hash THEN [blocks[b] EXCEPT !.locations = Append(@, location)] ELSE blocks[b]]
    ELSE Append(blocks, [hash |-> hash, locations |-> <<location>>])

\* the body of "for (let i = 0; ...)" on line i of a file
ExtractLine(st, path, lines, i, minLines) ==
    LET line == lines[i]
        trimmed == Trim(line)
    IN IF StartsWith(trimmed, FuncPrefix)
       THEN [st EXCEPT !.inFunction = TRUE, !.functionStart = i, !.functionLines = <<trimmed>>, !.indentLevel = SearchNonSpace(line)]
       ELSE IF st.inFunction
       THEN IF trimmed # <<>> /\ SearchNonSpace(line) <= st.indentLevel /\ ~StartsWith(trimmed, <<"#">>)
            THEN [st EXCEPT !.blocks = IF Len(st.functionLines) >= minLines
                                       THEN AddBlock(@, hashCode(normalizeCode(st.functionLines)), [file |-> path, line |-> st.functionStart])
                                       ELSE @,
                            !.inFunction = FALSE,
                            !.functionLines = <<>>]
            ELSE [st EXCEPT !.functionLines = Append(@, trimmed)]
       ELSE st

RECURSIVE ExtractLines(_, _, _, _, _)
ExtractLines(st, path, lines, i, minLines) ==
    IF i > Len(lines) THEN st
    ELSE ExtractLines(ExtractLine(st, path, lines, i, minLines), path, lines, i + 1, minLines)

\* duplicates.sort((a, b) => b.occurrences - a.occurrences): a stable sort
RECURSIVE SortByOccurrences(_)
SortByOccurrences(ds) ==
    IF ds = <<>> THEN <<>>
    ELSE LET rest == SortByOccurrences(SubSeq(ds, 1, Len(ds) - 1))
             last == ds[Len(ds)]
         IN SelectSeq(rest, LAMBDA d : d.occurrences >= last.occurrences) \o <<last>> \o SelectSeq(rest, LAMBDA d : d.occurrences < last.occurrences)

\* duplicates.slice(0, 20)
MaxDuplicates == 20

\* the glob of the .gd files and the empty Map
DuplicationStart ==
    /\ ePc = "start"
    /\ ePc' = "scan"
    /\ eIdx' = 1
    /\ UNCHANGED <<dupFiles, min_lines, codeBlocks, dupReport>>
    /\ UNCHANGED outsideE

\* one iteration of "for (const file of files)"; readFileSync on a file
\* that cannot be read throws
ExtractFile ==
    /\ ePc = "scan"
    /\ eIdx <= Len(dupFiles)
    /\ IF dupFiles[eIdx].stat # "ok"
       THEN ePc' = "threw" /\ UNCHANGED <<codeBlocks, eIdx>>
       ELSE /\ codeBlocks' = ExtractLines([inFunction |-> FALSE, functionStart |-> 0, functionLines |-> <<>>, indentLevel |-> 0, blocks |-> codeBlocks],
                                           dupFiles[eIdx].path, dupFiles[eIdx].lines, 1, MinLines(min_lines)).blocks
            /\ eIdx' = eIdx + 1
            /\ UNCHANGED ePc
    /\ UNCHANGED <<dupFiles, min_lines, dupReport>>
    /\ UNCHANGED outsideE

\* "Find duplicates", the sort and the returned report
ReportDuplicates ==
    /\ ePc = "scan"
    /\ eIdx > Len(dupFiles)
    /\ LET groups == SelectSeq(codeBlocks, LAMBDA b : Len(b.locations) > 1)
           duplicates == SortByOccurrences([k \in 1..Len(groups) |-> [occurrences |-> Len(groups[k].locations), locations |-> groups[k].locations]])
       IN dupReport' = [returned |-> TRUE,
                        isError |-> FALSE,
                        total_duplicates_found |-> Len(duplicates),
                        files_analyzed |-> Len(dupFiles),
                        min_lines_threshold |-> MinLines(min_lines),
                        duplicates |-> SubSeq(duplicates, 1, Min(Len(duplicates), MaxDuplicates))]
    /\ ePc' = "done"
    /\ UNCHANGED <<dupFiles, min_lines, codeBlocks, eIdx>>
    /\ UNCHANGED outsideE

\* a call of findDuplication on any corpus within the bounds
InitDuplication ==
    /\ dupFiles \in DupCorpora
    /\ min_lines \in {0, 2, 3}
    /\ codeBlocks = <<>>
    /\ eIdx = 1
    /\ dupReport = [returned |-> FALSE]
    /\ ePc = "start"
    /\ AutoloadIdle
    /\ DeadCodeIdle
    /\ SignalFlowIdle
    /\ ComplexityIdle
    /\ HandlerIdle
    /\ ProcessIdle
    /\ SessionIdle
    /\ GrowthIdle
    /\ LspIdle

NextDuplication ==
    \/ DuplicationStart
    \/ ExtractFile
    \/ ReportDuplicates
    \/ HandlerReturn
    \/ HandlerCatch

SpecDuplication == InitDuplication /\ [][NextDuplication]_vars

(***************************************************************************)
(* Properties of part E.                                                   *)
(***************************************************************************)
\* the functions written in the corpus: <<file, line>> of every declaration
DupFunctions == {q \in (1..Len(dupFiles)) \X (1..(3 * (MaxItems + 1))) : q[2] <= Len(dupFiles[q[1]].lines) /\ StartsWith(Trim(dupFiles[q[1]].lines[q[2]]), FuncPrefix)}

\* the line is neither blank nor a comment and is not indented deeper than ind
EndsSpan(line, ind) == Trim(line) # <<>> /\ ~StartsWith(Trim(line), <<"#">>) /\ SearchNonSpace(line) <= ind

\* the last line of the function declared on line j
SpanEnd(lines, j) == CHOOSE e \in j..Len(lines) :
    /\ \A k \in (j + 1)..e : ~EndsSpan(lines[k], SearchNonSpace(lines[j]))
    /\ e < Len(lines) => EndsSpan(lines[e + 1], SearchNonSpace(lines[j]))

SpanOf(q) == SubSeq(dupFiles[q[1]].lines, q[2], SpanEnd(dupFiles[q[1]].lines, q[2]))

\* a statement that is no declaration of a function follows the function
FollowedByStatement(q) ==
    LET lines == dupFiles[q[1]].lines
    IN SpanEnd(lines, q[2]) < Len(lines) /\ ~StartsWith(Trim(lines[SpanEnd(lines, q[2]) + 1]), FuncPrefix)

LocationOf(q) == [file |-> dupFiles[q[1]].path, line |-> q[2]]

Extracted(q) == \E b \in 1..Len(codeBlocks) : LocationOf(q) \in Range(codeBlocks[b].locations)

InSameGroup(q, r) == \E d \in 1..Len(dupReport.duplicates) : {LocationOf(q), LocationOf(r)} \subseteq Range(dupReport.duplicates[d].locations)

\* the lines without their indentation and without the blank lines
Stripped(ls) == SelectSeq([k \in 1..Len(ls) |-> Trim(ls[k])], LAMBDA l : l # <<>>)

\* C14: duplication detection is unchanged by whitespace-only edits: two
\* functions that differ only by indentation or blank lines normalize to the
\* same hash, are extracted alike, and are placed in the same duplicate group.
C14_WhitespaceEditsKeepGroup ==
    ePc = "done" =>
        \A q, r \in DupFunctions :
            (q # r /\ Stripped(SpanOf(q)) = Stripped(SpanOf(r))) =>
                /\ hashCode(normalizeCode(SpanOf(q))) = hashCode(normalizeCode(SpanOf(r)))
                /\ (FollowedByStatement(q) /\ FollowedByStatement(r)) => (Extracted(q) <=> Extracted(r))
                /\ (Extracted(q) /\ Extracted(r)) => InSameGroup(q, r)

\* C15: findDuplication extracts every function whose text spans at least
\* min_lines lines, also the last function of a file and a function that is
\* directly followed by another declaration; two identical such functions
\* are reported as one duplicate group with both locations.
C15_EveryLongFunctionExtracted ==
    ePc = "done" =>
        /\ \A q \in DupFunctions : Len(SpanOf(q)) >= MinLines(min_lines) => Extracted(q)
        /\ \A q, r \in DupFunctions :
              (q # r /\ SpanOf(q) = SpanOf(r) /\ Len(SpanOf(q)) >= MinLines(min_lines)) => InSameGroup(q, r)

\* C16: a duplicate group is determined by the function bodies: two
\* extracted functions whose bodies are identical after normalization are in
\* the same duplicate group, also when their declaration lines differ.
C16_GroupsByBody ==
    ePc = "done" =>
        \A q, r \in DupFunctions :
            (q # r /\ Extracted(q) /\ Extracted(r) /\ normalizeCode(Tail(SpanOf(q))) = normalizeCode(Tail(SpanOf(r))))
                => InSameGroup(q, r)

(***************************************************************************)
(* Part F.  The tools that spawn an external program and wait for it:      *)
(* TestRunner.runTests, QualityChecker.runGdlint, QualityChecker.formatFile.*)
(* spawn is taken to succeed (shell: true starts the shell).  Time is not  *)
(* counted: an armed timer may fire at any moment after it was set.        *)
(***************************************************************************)
SpawningTools == {"runTests", "runGdlint", "formatFile"}

\* by itself / never by itself but on SIGTERM / never by itself and only on SIGKILL
Behaviours == {"exits", "onTerm", "ignoresTerm"}

TimeoutArgs == {Absent, 1000}

\* "timeout = 300000" in the destructuring of args
DefaultTimeout == 300000

Timeout(arg) == IF arg = Absent THEN DefaultTimeout ELSE arg

\* the early returns before the spawn
NotReadyResult == [resolved |-> TRUE, isError |-> TRUE, timed_out |-> FALSE, exit_code |-> "none", seconds |-> 0, chunks |-> 0]

\* runTests' close listener, "if (killed)"
TimedOutResult(arg, out) ==
    [resolved |-> TRUE, isError |-> TRUE, timed_out |-> TRUE, exit_code |-> "-1", seconds |-> Timeout(arg) \div 1000, chunks |-> out]

\* what the close listener of each tool resolves the promise with
CloseResult(t, code, dry, wasKilled, arg, out) ==
    IF t = "runTests" /\ wasKilled THEN TimedOutResult(arg, out)
    ELSE [resolved |-> TRUE,
          isError |-> (t = "formatFile" /\ ~dry /\ code # "0"),
          timed_out |-> FALSE, exit_code |-> code, seconds |-> 0, chunks |-> out]

\* the guards of the tool and "spawn(...)"; runTests also sets its timer
SpawnProcess ==
    /\ fPc = "start"
    /\ IF ~ready
       THEN /\ result' = NotReadyResult
            /\ fPc' = "done"
            /\ UNCHANGED <<procState, timeoutId>>
       ELSE /\ procState' = "running"
            /\ timeoutId' = IF procTool = "runTests" THEN "armed" ELSE "none"
            /\ fPc' = "waiting"
            /\ UNCHANGED result
    /\ UNCHANGED <<procTool, timeoutArg, dry_run, ready, behaviour, procKilled, sent, exitCode, stdout, killed, graceId>>
    /\ UNCHANGED outsideF

\* proc.stdout.on("data", ...)
StdoutData ==
    /\ fPc = "waiting"
    /\ procState = "running"
    /\ stdout < MaxChunks
    /\ stdout' = stdout + 1
    /\ UNCHANGED <<procTool, timeoutArg, dry_run, ready, behaviour, procState, procKilled, sent, exitCode, killed, timeoutId, graceId, result, fPc>>
    /\ UNCHANGED outsideF

\* the external program ends by itself
ProcessExits ==
    /\ procState = "running"
    /\ behaviour = "exits"
    /\ procState' = "exited"
    /\ \E code \in {"0", "1"} : exitCode' = code
    /\ UNCHANGED <<procTool, timeoutArg, dry_run, ready, behaviour, procKilled, sent, stdout, killed, timeoutId, graceId, result, fPc>>
    /\ UNCHANGED outsideF

\* the external program is ended by a signal it does not ignore
ProcessDies ==
    /\ procState = "running"
    /\ \/ "SIGKILL" \in Range(sent)
       \/ "SIGTERM" \in Range(sent) /\ behaviour # "ignoresTerm"
    /\ procState' = "exited"
    /\ exitCode' = "null"
    /\ UNCHANGED <<procTool, timeoutArg, dry_run, ready, behaviour, procKilled, sent, stdout, killed, timeoutId, graceId, result, fPc>>
    /\ UNCHANGED outsideF

\* the callback of "setTimeout(() => { killed = true; proc.kill("SIGTERM");
\* setTimeout(...5000) }, timeout)"; proc.kill delivers nothing to a child
\* that has exited
TimeoutFires ==
    /\ timeoutId = "armed"
    /\ timeoutId' = "fired"
    /\ killed' = TRUE
    /\ IF procState = "running"
       THEN sent' = Append(sent, "SIGTERM") /\ procKilled' = TRUE
       ELSE UNCHANGED <<sent, procKilled>>
    /\ graceId' = "armed"
    /\ UNCHANGED <<procTool, timeoutArg, dry_run, ready, behaviour, procState, exitCode, stdout, result, fPc>>
    /\ UNCHANGED outsideF

\* the inner callback "if (!proc.killed) { proc.kill("SIGKILL"); }";
\* proc.killed is set as soon as a signal was delivered to the child
ForceKill(isKilled, state, q) ==
    IF ~isKilled /\ state = "running" THEN Append(q, "SIGKILL") ELSE q

GraceFires ==
    /\ graceId = "armed"
    /\ graceId' = "fired"
    /\ sent' = ForceKill(procKilled, procState, sent)
    /\ procKilled' = (procKilled \/ sent' # sent)
    /\ UNCHANGED <<procTool, timeoutArg, dry_run, ready, behaviour, procState, exitCode, stdout, killed, timeoutId, result, fPc>>
    /\ UNCHANGED outsideF

\* proc.on("close", ...): clearTimeout and the resolve of the promise
OnClose ==
    /\ fPc = "waiting"
    /\ procState = "exited"
    /\ timeoutId' = IF timeoutId = "armed" THEN "cleared" ELSE timeoutId
    /\ result' = CloseResult(procTool, exitCode, dry_run, killed, timeoutArg, stdout)
    /\ fPc' = "done"
    /\ UNCHANGED <<procTool, timeoutArg, dry_run, ready, behaviour, procState, procKilled, sent, exitCode, stdout, killed, graceId>>
    /\ UNCHANGED outsideF

\* a call of one of the three tools with any external program
InitProcess ==
    /\ procTool \in SpawningTools
    /\ timeoutArg \in TimeoutArgs
    /\ dry_run \in BOOLEAN
    /\ ready \in BOOLEAN
    /\ behaviour \in Behaviours
    /\ procTool # "runTests" => timeoutArg = Absent
    /\ procTool # "formatFile" => dry_run = TRUE
    /\ procTool = "runGdlint" => ready = TRUE
    /\ procState = "none"
    /\ procKilled = FALSE
    /\ sent = <<>>
    /\ exitCode = "null"
    /\ stdout = 0
    /\ killed = FALSE
    /\ timeoutId = "none"
    /\ graceId = "none"
    /\ result = NoResult
    /\ fPc = "start"
    /\ AutoloadIdle
    /\ DeadCodeIdle
    /\ SignalFlowIdle
    /\ ComplexityIdle
    /\ DuplicationIdle
    /\ HandlerIdle
    /\ SessionIdle
    /\ GrowthIdle
    /\ LspIdle

NextProcess ==
    \/ SpawnProcess
    \/ StdoutData
    \/ ProcessExits
    \/ ProcessDies
    \/ TimeoutFires
    \/ GraceFires
    \/ OnClose

\* timers that are due fire, signals are delivered, the close event is
\* handled: whatever can happen next eventually does
SpecProcess == InitProcess /\ [][NextProcess]_vars /\ WF_vars(NextProcess)

\* nothing can happen any more: no timer is armed, no signal is on its way,
\* the child neither ends by itself nor has a close event to deliver
NothingPending == ~ENABLED NextProcess

\* C20: every call that spawns an external process is bounded by a timeout:
\* a running child always has a timer set on it or a signal that ends it on
\* its way, a child that ignores the first signal is sent SIGKILL once the
\* 5 s are over, and the call never ends up waiting with nothing left that
\* could wake it; a call of runTests whose timer fired on a running child
\* returns the timed-out error.
C20_SpawnBoundedByTimeout ==
    /\ (fPc = "waiting" /\ procState = "running" /\ behaviour # "exits") =>
            (timeoutId = "armed" \/ graceId = "armed" \/ ENABLED ProcessDies)
    /\ (graceId = "fired" /\ procState = "running" /\ behaviour = "ignoresTerm") => "SIGKILL" \in Range(sent)
    /\ NothingPending => fPc = "done"
    /\ (fPc = "done" /\ "SIGTERM" \in Range(sent)) => (result.isError /\ result.timed_out)

(***************************************************************************)
(* Failures at the tool boundary: files that cannot be read, a search root *)
(* or a manifest that is absent, exceptions inside a tool.                 *)
(***************************************************************************)
\* readFileSync fails on one of the .gd files of the scan
SomeUnreadable == \E i \in 1..Len(files) : files[i].stat = "unreadable"

\* C17: during a project-wide scan a file that cannot be read is skipped and
\* the scan continues: no exception leaves detectDeadCode, and the call is
\* answered with a normal report, not with an error result.
C17_ReadFailureSkipped ==
    SomeUnreadable =>
        /\ dPc # "threw"
        /\ response.answered => ~response.isError

\* C18: detectDeadCode on a search root that does not exist answers with an
\* explicit error result, neither with an ordinary report of zero
\* declarations nor with a thrown exception.
C18_MissingRootNotFound ==
    ~rootExists =>
        /\ dPc # "threw"
        /\ dPc = "done" => report.isError
        /\ response.answered => response.isError

C19_WitnessNotFound == ~manifest.exists /\ response.answered

(***************************************************************************)
(* Part G.  A session of the server: calls of detectDeadCode and           *)
(* analyzeSignalFlow on one project that does not change, in any order.    *)
(* Both methods await only the glob at their beginning; from there on a    *)
(* call runs to its return without another call in between.                *)
(***************************************************************************)
SessionLinePool ==
    {SignalLine(SpawnId), EmitLine(SpawnId), ConnectLine(SpawnId),
     FuncLine(HelperId), FuncLine(HandlerId), CallLine(HelperId), VarLine(HandlerId)}

\* the project on disk: both tools glob the same files
SessionCorpora ==
    {[i \in 1..Len(t) |-> [path |-> PathTable[i], stat |-> st[i], lines |-> t[i]]] :
        <<t, st>> \in {q \in TextsOf(SessionLinePool, Len(PathTable), MaxLines) \X [1..Len(PathTable) -> {"ok", "unreadable"}] :
                          \A i \in 1..Len(PathTable) : q[2][i] # "ok" => q[1][i] = <<>>}}

SessionTools == {"analyzeSignalFlow", "detectDeadCode"}

PcOf(tool) == IF tool = "analyzeSignalFlow" THEN gPc ELSE dPc

\* the call is not between its glob and its return
Quiet(pc) == pc \in {"idle", "start", "done", "threw"}

\* what a finished call handed back: the report or the exception
Outcome(tool) ==
    IF tool = "analyzeSignalFlow"
    THEN [seen |-> TRUE, threw |-> gPc = "threw", value |-> flowReport]
    ELSE [seen |-> TRUE, threw |-> dPc = "threw", value |-> report]

\* the record of first outcomes once the latest call of tool is noted
Noted(tool) ==
    IF PcOf(tool) \in {"done", "threw"} /\ ~firstResults[IF tool = "analyzeSignalFlow" THEN "flow" ELSE "dead"].seen
    THEN IF tool = "analyzeSignalFlow"
         THEN [firstResults EXCEPT !.flow = Outcome(tool)]
         ELSE [firstResults EXCEPT !.dead = Outcome(tool)]
    ELSE firstResults

\* the handler dispatches one more call of a tool; what the tool's earlier
\* call left in the model's variables is garbage of that call
InvokeTool ==
    /\ calls < MaxCalls
    /\ \E tool \in SessionTools :
        /\ PcOf(tool) \in {"idle", "done", "threw"}
        /\ firstResults' = Noted(tool)
        /\ IF tool = "analyzeSignalFlow"
           THEN /\ gPc' = "start"
                /\ flowReport' = [returned |-> FALSE]
                /\ UNCHANGED <<dPc, report>>
           ELSE /\ dPc' = "start"
                /\ report' = [returned |-> FALSE]
                /\ UNCHANGED <<gPc, flowReport>>
    /\ calls' = calls + 1
    /\ UNCHANGED <<rootExists, files, sceneFiles, allFunctions, allVariables, allSignals, usages, stringReferences, dIdx>>
    /\ UNCHANGED <<flowFiles, signals, connections, emissions, gIdx>>
    /\ UNCHANGED <<aVars, cVars, eVars, hVars, fVars, kVars, lVars>>

\* a step of analyzeSignalFlow while no call of detectDeadCode is under way
SignalFlowTurn ==
    /\ Quiet(dPc)
    /\ NextSignalFlowSteps

\* a step of detectDeadCode while no call of analyzeSignalFlow is under way
DeadCodeTurn ==
    /\ Quiet(gPc)
    /\ NextDeadCodeSteps

InitSession ==
    /\ \E c \in SessionCorpora : files = c /\ flowFiles = c
    /\ rootExists = TRUE
    /\ sceneFiles = <<>>
    /\ allFunctions = <<>>
    /\ allVariables = <<>>
    /\ allSignals = <<>>
    /\ usages = {}
    /\ stringReferences = {}
    /\ dIdx = 1
    /\ report = [returned |-> FALSE]
    /\ dPc = "idle"
    /\ signals = <<>>
    /\ connections = <<>>
    /\ emissions = <<>>
    /\ gIdx = 1
    /\ flowReport = [returned |-> FALSE]
    /\ gPc = "idle"
    /\ SessionIdle
    /\ AutoloadIdle
    /\ ComplexityIdle
    /\ DuplicationIdle
    /\ HandlerIdle
    /\ ProcessIdle
    /\ GrowthIdle
    /\ LspIdle

NextSession ==
    \/ InvokeTool
    \/ SignalFlowTurn
    \/ DeadCodeTurn

SpecSession == InitSession /\ [][NextSession]_vars

RecordsOf(i, j) == SelectSeq(connections, LAMBDA x : x.file = flowFiles[i].path /\ x.line = j)

FlowPlaces == {q \in (1..Len(flowFiles)) \X (1..(MaxLines + 1)) : q[2] <= Len(flowFiles[q[1]].lines)}

\* C22: in analyzeSignalFlow each scanned line produces at most one
\* connection record: when the qualified shape emitter.signal.connect(
\* handler) matches, the record carries that signal name and the shorthand
\* extractor adds nothing for the line; the shorthand record is added only
\* when the qualified shape does not match.
C22_OneConnectionPerLine ==
    gPc = "done" =>
        \A q \in FlowPlaces :
            LET toks == flowFiles[q[1]].lines[q[2]].toks
                c == ConnectMatch(toks)
                h == ShortConnectMatch(toks)
                recs == RecordsOf(q[1], q[2])
            IN /\ Len(recs) <= 1
               /\ c # <<>> => (Len(recs) = 1 /\ recs[1].signal = c[1])
               /\ (c = <<>> /\ h # <<>>) => (Len(recs) = 1 /\ recs[1].signal = h[1])
               /\ (c = <<>> /\ h = <<>>) => recs = <<>>

\* a scanned line on which both shapes match, with different names, has
\* left the one record of the qualified shape
C22_Witness ==
    /\ gPc = "done"
    /\ \E q \in FlowPlaces :
            LET toks == flowFiles[q[1]].lines[q[2]].toks
            IN /\ ConnectMatch(toks) = <<"hit">>
               /\ ShortConnectMatch(toks) = <<"died">>
               /\ Len(RecordsOf(q[1], q[2])) = 1

\* the scan of the files went through: the three loops after it have run or thrown
ScanOver == gPc \in {"done", "threw"} /\ gIdx > Len(flowFiles)

DeclaredNames == {signals[k].name : k \in 1..Len(signals)}

\* C23: the key set of signal_flow equals the set of signal names seen in
\* a declaration: once the files are scanned the call returns a report whose
\* signal_flow has exactly the declared names as keys; all_connections and
\* all_emissions hold every record, also those of undeclared names, and the
\* connected_to / emitted_from of an entry are exactly the records of that
\* entry's name.
C23_FlowKeysAreDeclaredNames ==
    ScanOver =>
        /\ gPc = "done"
        /\ DOMAIN flowReport.signal_flow = DeclaredNames
        /\ flowReport.all_connections = connections
        /\ flowReport.all_emissions = emissions
        /\ \A n \in DOMAIN flowReport.signal_flow :
              /\ flowReport.signal_flow[n].connected_to = SelectSeq(connections, LAMBDA x : x.signal = n)
              /\ flowReport.signal_flow[n].emitted_from = SelectSeq(emissions, LAMBDA x : x.signal = n)

(***************************************************************************)
(* Properties of the usage set when the project grows.                     *)
(***************************************************************************)
KeysOf(list) == {list[k].key : k \in 1..Len(list)}

DeadDeclared ==
    Cardinality({i \in 1..Len(allFunctions) : FunctionVerdict(allFunctions[i]) = "dead"})
    + Cardinality({i \in 1..Len(allVariables) : VariableIsDead(allVariables[i])})
    + Cardinality({i \in 1..Len(allSignals) : SignalIsDead(allSignals[i])})

AllDeclared == Len(allFunctions) + Len(allVariables) + Len(allSignals)

\* C26: detection_rate is the rounded percentage of the dead functions,
\* variables and signals over all declared ones: a whole number between 0
\* and 100 (followed by the percent sign) that is within one half of
\* 100 * dead / declared, 0 when nothing is declared, and taken from the
\* full dead counts, not from the lists cut at 50 entries.
C26_DetectionRate ==
    dPc = "done" =>
        LET rate == report.detection_rate.percent
        IN /\ rate \in 0..100
           /\ report.detection_rate.unit = "%"
           /\ AllDeclared = 0 => rate = 0
           /\ 2 * (100 * DeadDeclared - rate * AllDeclared) <= AllDeclared
           /\ 2 * (rate * AllDeclared - 100 * DeadDeclared) <= AllDeclared
           /\ report.potentially_dead_functions + report.potentially_dead_variables + report.potentially_dead_signals = DeadDeclared

\* more dead variables than the report lists, and a declaration that is used
C26_Witness ==
    /\ dPc = "done"
    /\ Len(report.dead_variables) = MaxListed
    /\ report.potentially_dead_variables > MaxListed
    /\ report.detection_rate.percent \in 1..99

(***************************************************************************)
(* PART H - SemanticAnalyzer, the client of the Godot language server.     *)
(* A socket is [state, root]: state is "connecting", "open" or "failed"    *)
(* (a closed socket leaves the sequence), and root is the outside call of  *)
(* sendRequest that is rejected when the promise of this socket's connect()*)
(* is rejected.  An outside call is [id, accepted, settles]: its id in     *)
(* pendingRequests (0 while it awaits connect()), whether the server       *)
(* accepted a connection made for it, and the calls of its resolve and     *)
(* reject functions, in order.                                             *)
(***************************************************************************)
NewSocket(root) == [state |-> "connecting", root |-> root]

NewRequest(id) == [id |-> id, accepted |-> FALSE, settles |-> <<>>]

\* "this.socket && this.initialized": connect() returns at once
Connected == socket # 0 /\ initialized

\* the sockets that still hold a connection or ask for one
Live == {k \in 1..Len(sockets) : sockets[k].state \in {"connecting", "open"}}

\* the position of the request that holds id in pendingRequests
Holder(id) == CHOOSE r \in 1..Len(requests) : requests[r].id = id

\* a Map that keeps the key it was asked to delete
Retain(pending, id) == pending

\* this.pendingRequests.delete(id)
Forget(pending, id) == pending \ {id}

\* resolve(...) or reject(...) of the request at position r
Settle(reqs, r, outcome) == [reqs EXCEPT ![r].settles = Append(@, outcome)]

\* reject(e) in connect(): the await of sendRequest throws, for a call that
\* still waits; a later reject of a settled promise changes nothing
RejectRoot(reqs, root) ==
    IF root # 0 /\ reqs[root].id = 0 /\ reqs[root].settles = <<>>
    THEN Settle(reqs, root, "connection failed")
    ELSE reqs

\* sendRequest called from outside the class.  With a connected and
\* initialized socket the request gets its id, its entry in pendingRequests
\* and its timer, and is written; otherwise connect() makes a socket.
SendRequest ==
    /\ Len(requests) < MaxRequests
    /\ IF Connected
       THEN /\ requestId' = requestId + 1
            /\ requests' = Append(requests, NewRequest(requestId + 1))
            /\ pendingRequests' = pendingRequests \cup {requestId + 1}
            /\ timers' = timers \cup {requestId + 1}
            /\ written' = Append(written, requestId + 1)
            /\ UNCHANGED <<sockets, socket>>
       ELSE /\ Len(sockets) < MaxSockets
            /\ requests' = Append(requests, NewRequest(0))
            /\ sockets' = Append(sockets, NewSocket(Len(requests) + 1))
            /\ socket' = Len(sockets) + 1
            /\ UNCHANGED <<requestId, pendingRequests, timers, written>>
    /\ UNCHANGED <<initialized, ignored, buffer, dispatched, incoming>>
    /\ UNCHANGED outsideL

\* the "connect" event of socket k: the handler awaits initialize(), whose
\* first statement is sendRequest("initialize"), whose first statement is
\* connect().  initialized is set only after initialize() has returned, so
\* connect() does not return here: it makes the next socket, whose failure
\* would reject the promise of socket k and with it the root call.
ServerAccepts(k) ==
    /\ sockets[k].state = "connecting"
    /\ ~Connected
    /\ Len(sockets) < MaxSockets
    /\ sockets' = Append([sockets EXCEPT ![k].state = "open"], NewSocket(sockets[k].root))
    /\ socket' = Len(sockets) + 1
    /\ requests' = IF sockets[k].root # 0
                   THEN [requests EXCEPT ![sockets[k].root].accepted = TRUE]
                   ELSE requests
    /\ UNCHANGED <<initialized, requestId, pendingRequests, timers, written, ignored, buffer, dispatched, incoming>>
    /\ UNCHANGED outsideL

\* the "error" event of socket k (connection refused, or reset later)
SocketError(k) ==
    /\ sockets[k].state \in {"connecting", "open"}
    /\ sockets' = [sockets EXCEPT ![k].state = "failed"]
    /\ initialized' = FALSE
    /\ requests' = RejectRoot(requests, sockets[k].root)
    /\ UNCHANGED <<socket, requestId, pendingRequests, timers, written, ignored, buffer, dispatched, incoming>>
    /\ UNCHANGED outsideL

\* the "close" event of socket k: after its error, or when the server ends
\* the connection.  The handler clears this.socket whichever socket it holds.
SocketCloses(k) ==
    /\ sockets[k].state \in {"open", "failed"}
    /\ sockets' = SubSeq(sockets, 1, k - 1) \o SubSeq(sockets, k + 1, Len(sockets))
    /\ socket' = 0
    /\ initialized' = FALSE
    /\ UNCHANGED <<requestId, pendingRequests, timers, requests, written, ignored, buffer, dispatched, incoming>>
    /\ UNCHANGED outsideL

\* handleMessage for a response that carries id, with or without an error
\* member; a socket with a "data" handler delivers it
ResponseArrives(id, isError) ==
    /\ \E k \in 1..Len(sockets) : sockets[k].state = "open"
    /\ IF id \in pendingRequests
       THEN /\ pendingRequests' = Forget(pendingRequests, id)
            /\ requests' = Settle(requests, Holder(id), IF isError THEN "rejected" ELSE "resolved")
            /\ UNCHANGED ignored
       ELSE /\ ignored' = ignored \cup {<<"response", id>>}
            /\ UNCHANGED <<pendingRequests, requests>>
    /\ UNCHANGED <<sockets, socket, initialized, requestId, timers, written, buffer, dispatched, incoming>>
    /\ UNCHANGED outsideL

\* the setTimeout callback of the request id, 10 seconds after it was written
TimeoutFires10s(id) ==
    /\ id \in timers
    /\ timers' = timers \ {id}
    /\ IF id \in pendingRequests
       THEN /\ pendingRequests' = Forget(pendingRequests, id)
            /\ requests' = Settle(requests, Holder(id), "timeout")
            /\ UNCHANGED ignored
       ELSE /\ ignored' = ignored \cup {<<"timeout", id>>}
            /\ UNCHANGED <<pendingRequests, requests>>
    /\ UNCHANGED <<sockets, socket, initialized, requestId, written, buffer, dispatched, incoming>>
    /\ UNCHANGED outsideL

\* the state after "new SemanticAnalyzer(config)"
InitLsp ==
    /\ LspIdle
    /\ AutoloadIdle
    /\ DeadCodeIdle
    /\ SignalFlowIdle
    /\ ComplexityIdle
    /\ DuplicationIdle
    /\ HandlerIdle
    /\ ProcessIdle
    /\ SessionIdle
    /\ GrowthIdle

OnConnect == \E k \in 1..Len(sockets) : ServerAccepts(k)

OnError == \E k \in 1..Len(sockets) : SocketError(k)

OnSocketClose == \E k \in 1..Len(sockets) : SocketCloses(k)

\* the connection attempts
NextConnect ==
    \/ SendRequest
    \/ OnConnect
    \/ OnError
    \/ OnSocketClose

\* the connection attempt made for the call at position r ends: the server
\* accepts it or the socket reports an error
AttemptEnds(r) ==
    \E k \in 1..Len(sockets) :
        /\ sockets[k].state = "connecting"
        /\ sockets[k].root = r
        /\ (ServerAccepts(k) \/ SocketError(k))

\* the operating system ends every connection attempt
SpecConnect == InitLsp /\ [][NextConnect]_vars /\ \A r \in 1..MaxRequests : WF_vars(AttemptEnds(r))

\* the state in which connect() returns at once: a socket is held and
\* initialized is set
InitPending ==
    /\ sockets = <<[state |-> "open", root |-> 0]>>
    /\ socket = 1
    /\ initialized = TRUE
    /\ requestId = 0
    /\ pendingRequests = {}
    /\ timers = {}
    /\ requests = <<>>
    /\ written = <<>>
    /\ ignored = {}
    /\ buffer = <<>>
    /\ dispatched = <<>>
    /\ incoming = NoStream
    /\ AutoloadIdle
    /\ DeadCodeIdle
    /\ SignalFlowIdle
    /\ ComplexityIdle
    /\ DuplicationIdle
    /\ HandlerIdle
    /\ ProcessIdle
    /\ SessionIdle
    /\ GrowthIdle

\* the ids a response of the server can carry: those of the requests, and one more
ResponseIds == 1..(MaxRequests + 1)

OnResponse == \E id \in ResponseIds, isError \in BOOLEAN : ResponseArrives(id, isError)

OnTimeout == \E id \in timers : TimeoutFires10s(id)

NextPending ==
    \/ NextConnect
    \/ OnResponse
    \/ OnTimeout

SpecPending == InitPending /\ [][NextPending]_vars

(***************************************************************************)
(* handleData.  The stream is a sequence of bytes, written as strings:     *)
(* "C" stands for the ASCII text "Content-Length: ", "r" and "n" for CR    *)
(* and LF, "L" and "T" for the two bytes of one UTF-8 character, anything  *)
(* else for itself.  The buffer is a JavaScript string, a sequence of      *)
(* characters: "E" is the character that "L" "T" encode and "?" is U+FFFD. *)
(***************************************************************************)
\* data.toString(): UTF-8 decoding of one chunk on its own; a lead byte
\* without its trail byte, and a trail byte without its lead byte, each
\* become U+FFFD
RECURSIVE Decode(_)
Decode(bytes) ==
    IF bytes = <<>> THEN <<>>
    ELSE IF bytes[1] = "L" /\ Len(bytes) >= 2 /\ bytes[2] = "T" THEN <<"E">> \o Decode(SubSeq(bytes, 3, Len(bytes)))
    ELSE IF bytes[1] \in {"L", "T"} THEN <<"?">> \o Decode(Tail(bytes))
    ELSE <<bytes[1]>> \o Decode(Tail(bytes))

\* a decoder that keeps the bytes as they are
DecodeLatin1(bytes) == bytes

\* this.buffer.indexOf("\r\n\r\n"), counted from 0 (-1 when absent)
HeaderEnd(buf) ==
    LET at == {i \in 0..(Len(buf) - 4) : SubSeq(buf, i + 1, i + 4) = <<"r", "n", "r", "n">>}
    IN IF at = {} THEN -1 ELSE CHOOSE i \in at : \A j \in at : i <= j

\* the digits at the head of s
RECURSIVE TakeDigits(_)
TakeDigits(s) == IF s # <<>> /\ IsDigit(Head(s)) THEN <<Head(s)>> \o TakeDigits(Tail(s)) ELSE <<>>

DigitTable == <<"0", "1", "2", "3", "4", "5", "6", "7", "8", "9">>

\* parseInt(digits, 10)
RECURSIVE ParseInt(_)
ParseInt(digits) ==
    IF digits = <<>> THEN 0
    ELSE 10 * ParseInt(SubSeq(digits, 1, Len(digits) - 1)) + (IndexOf(DigitTable, digits[Len(digits)]) - 1)

\* header.match(/Content-Length: (\d+)/): <<the digits>> of the first match, or <<>>
ContentLengthMatch(header) ==
    LET at == {i \in 1..(Len(header) - 1) : header[i] = "C" /\ IsDigit(header[i + 1])}
    IN IF at = {} THEN <<>>
       ELSE LET i == CHOOSE x \in at : \A y \in at : x <= y
            IN <<TakeDigits(SubSeq(header, i + 1, Len(header)))>>

\* JSON.parse(content) returns: the content is one object whose text holds
\* no structural character of the framing
JsonParses(text) ==
    /\ Len(text) >= 3
    /\ text[1] = "{"
    /\ text[Len(text)] = "}"
    /\ \A i \in 2..(Len(text) - 1) : text[i] \in {"a", "E", "?"}

\* the "while (true)" loop of handleData on the buffer buf, with out the
\* contents handed to handleMessage so far
RECURSIVE HandleLoop(_, _)
HandleLoop(buf, out) ==
    LET headerEnd == HeaderEnd(buf)
        header == SubSeq(buf, 1, headerEnd)
        contentLengthMatch == ContentLengthMatch(header)
        contentLength == ParseInt(contentLengthMatch[1])
        contentStart == headerEnd + 4
        text == SubSeq(buf, contentStart + 1, contentStart + contentLength)
        rest == SubSeq(buf, contentStart + contentLength + 1, Len(buf))
    IN IF headerEnd = -1 THEN [buffer |-> buf, dispatched |-> out]
       ELSE IF contentLengthMatch = <<>> THEN HandleLoop(SubSeq(buf, headerEnd + 5, Len(buf)), out)
       ELSE IF Len(buf) < contentStart + contentLength THEN [buffer |-> buf, dispatched |-> out]
       ELSE HandleLoop(rest, IF JsonParses(text) THEN Append(out, text) ELSE out)

\* the bytes of the stream the socket has not delivered yet
Undelivered == SubSeq(incoming.stream, incoming.delivered + 1, Len(incoming.stream))

\* the "data" event of an open socket with the next n bytes of the stream
DataArrives(n) ==
    /\ \E k \in 1..Len(sockets) : sockets[k].state = "open"
    /\ n \in 1..Len(Undelivered)
    /\ LET after == HandleLoop(buffer \o Decode(SubSeq(Undelivered, 1, n)), dispatched)
       IN /\ buffer' = after.buffer
          /\ dispatched' = after.dispatched
    /\ incoming' = [incoming EXCEPT !.delivered = @ + n]
    /\ UNCHANGED <<sockets, socket, initialized, requestId, pendingRequests, timers, requests, written, ignored>>
    /\ UNCHANGED outsideL

OnData == \E n \in 1..Len(Undelivered) : DataArrives(n)

\* a message of the server: the header with the byte length of the body
Framed(body) == <<"C", DigitTable[Len(body) + 1], "r", "n", "r", "n">> \o body

\* the bodies: an object with an ASCII text, and one with a two-byte character
Bodies == {<<"{", "a", "}">>, <<"{", "L", "T", "}">>}

\* the proper prefixes of a byte sequence
Prefixes(s) == {SubSeq(s, 1, n) : n \in 0..(Len(s) - 1)}

RECURSIVE MessageRuns(_)
MessageRuns(n) ==
    IF n = 0 THEN {<<>>}
    ELSE MessageRuns(n - 1) \cup {Append(run, body) : run \in MessageRuns(n - 1), body \in Bodies}

\* up to MaxMessages complete messages and the beginning of one more
Streams ==
    {Flatten([i \in 1..Len(run) |-> Framed(run[i])]) \o pre :
        run \in MessageRuns(MaxMessages), pre \in UNION {Prefixes(Framed(body)) : body \in Bodies}}

\* the server has accepted the first connection of a call and sends a stream
InitFraming ==
    /\ sockets = <<[state |-> "open", root |-> 1], NewSocket(1)>>
    /\ socket = 2
    /\ initialized = FALSE
    /\ requestId = 0
    /\ pendingRequests = {}
    /\ timers = {}
    /\ requests = <<[id |-> 0, accepted |-> TRUE, settles |-> <<>>]>>
    /\ written = <<>>
    /\ ignored = {}
    /\ buffer = <<>>
    /\ dispatched = <<>>
    /\ incoming \in {[stream |-> s, delivered |-> 0] : s \in Streams}
    /\ AutoloadIdle
    /\ DeadCodeIdle
    /\ SignalFlowIdle
    /\ ComplexityIdle
    /\ DuplicationIdle
    /\ HandlerIdle
    /\ ProcessIdle
    /\ SessionIdle
    /\ GrowthIdle

SpecFraming == InitFraming /\ [][OnData]_vars

(***************************************************************************)
(* Properties of the language-server client.                               *)
(***************************************************************************)
Waits(r) == Len(requests) >= r /\ requests[r].settles = <<>>

Settled(r) == Len(requests) >= r /\ requests[r].settles # <<>>

\* C27: every call of sendRequest eventually settles: resolved by its
\* response, rejected by the timeout, or rejected when the connection fails;
\* no call waits forever.
C27_RequestSettles == \A r \in 1..MaxRequests : Waits(r) ~> Settled(r)

\* C28: each request is settled at most once under any interleaving of
\* responses and timeouts: its id has left pendingRequests when its promise
\* is settled, and pendingRequests holds exactly the ids of the written
\* requests that are not settled, so that a late timeout, a late response
\* and a response with an unknown id find nothing to settle.
C28_SettledAtMostOnce ==
    /\ \A r \in 1..Len(requests) : Len(requests[r].settles) <= 1
    /\ pendingRequests = {requests[r].id : r \in {q \in 1..Len(requests) : requests[q].id # 0 /\ requests[q].settles = <<>>}}

\* one request was resolved before its timer ran, another timed out before
\* its response came, and a response with an unknown id came as well
C28_Witness ==
    /\ \E r \in 1..Len(requests) : requests[r].settles = <<"resolved">> /\ <<"timeout", requests[r].id>> \in ignored
    /\ \E r \in 1..Len(requests) : requests[r].settles = <<"timeout">> /\ <<"response", requests[r].id>> \in ignored
    /\ <<"response", MaxRequests + 1>> \in ignored

\* C29: the SemanticAnalyzer holds at most one socket at a time: no call of
\* connect or sendRequest, the requests of initialize included, makes a
\* socket while another one is connecting or open.
C29_OneSocket == Cardinality(Live) <= 1

\* the complete messages at the head of a byte stream, and the bytes after them
RECURSIVE FramesOf(_, _)
FramesOf(bytes, out) ==
    LET complete == {body \in Bodies : Len(bytes) >= Len(Framed(body)) /\ SubSeq(bytes, 1, Len(Framed(body))) = Framed(body)}
    IN IF complete = {} THEN [messages |-> out, trailing |-> bytes]
       ELSE LET body == CHOOSE b \in complete : TRUE
            IN FramesOf(SubSeq(bytes, Len(Framed(body)) + 1, Len(bytes)), Append(out, body))

\* the contents with an ASCII text only
AsciiOnly(bytes) == \A i \in 1..Len(bytes) : bytes[i] \notin {"L", "T"}

\* JSON.parse of the bytes of a whole body: its text
TextOf(body) == Decode(body)

\* C30: handleData is independent of how the stream is split into chunks:
\* when the whole stream has been delivered, the contents handed to
\* handleMessage are the complete messages of the stream, each once and in
\* stream order, and the buffer holds the trailing incomplete message only.
C30_ChunkIndependent ==
    incoming.delivered = Len(incoming.stream) =>
        LET frames == FramesOf(incoming.stream, <<>>)
        IN /\ dispatched = [i \in 1..Len(frames.messages) |-> TextOf(frames.messages[i])]
           /\ buffer = Decode(frames.trailing)

\* the same for the streams whose bodies are ASCII
FramingOfAscii == AsciiOnly(incoming.stream) => C30_ChunkIndependent

====
